---------------------------- MODULE Spec2Model ----------------------------
(***************************************************************************)
(* State-machine model of the parking-barrier firmware:                    *)
(*   GateController  (src/src/GateController/GateController.cpp)           *)
(*   SlotManager     (src/src/SlotManager/SlotManager.cpp)                 *)
(*   RFIDManager     (src/src/RFIDManager/RFIDManager.cpp): the whitelist  *)
(*                   and its snapshot in the EEPROM                        *)
(*   NetworkManager  (src/src/NetworkManager/NetworkManager.cpp)           *)
(* and of the per-tick loop that ties them together.  The loop (the        *)
(* sketch's main file) is not among the sources; it is modelled from       *)
(* spec.md section 4.4.                                                    *)
(*                                                                         *)
(* Every handler is one action.  The bodies of the handlers are operators  *)
(* on records that mirror the objects' fields, written in the order of the *)
(* statements of the C++ code.                                             *)
(***************************************************************************)
EXTENDS Integers, Sequences, FiniteSets, TLC

VARIABLES
  gate,       \* [Gates -> GateController object]
  slotMgr,    \* the SlotManager object
  now,        \* millis(): milliseconds since boot, an unsigned long
  op,         \* history: the last call, its arguments and what it saw on entry
  ret,        \* history: what the last call returned
  fired,      \* history: per gate, the fireEvent() calls of the last step, in order
  servoCmds,  \* history: per gate, the Servo::write() calls of the last step, in order
  sensed,     \* history: per gate, what readIRSensor() returned last (FALSE: never read)
  rfidMgr,    \* the RFIDManager object
  eeprom,     \* the EEPROM object: its RAM copy (data) and the flash behind it
  cardOp,     \* history: the last call on the RFIDManager and what it returned
  netMgr,     \* the NetworkManager object
  wifi,       \* WiFi.status() == WL_CONNECTED
  netOp       \* history: the last call on the NetworkManager, or the link's last change

vars == <<gate, slotMgr, now, op, ret, fired, servoCmds, sensed, rfidMgr, eeprom, cardOp,
          netMgr, wifi, netOp>>

---------------------------------------------------------------------------
(* Bounds of the model *)

\* Parking slots of the model (Config.h:48 sets 10; the allocator's
\* algorithm does not depend on the number).
TOTAL_SLOTS == 3

\* Horizon of the gate specification, in clock steps of ClockStep ms.
MaxGateSteps == 7

\* Horizon of the allocator specification, in clock steps of ClockStep ms.
MaxSlotSteps == 1

\* Horizon of the loop specification, in clock steps of ClockStep ms.
MaxLoopSteps == 4

\* Horizon of the specification of a gate that is ticked fairly, in clock
\* steps of ClockStep ms: long enough for a scan timeout to expire.
MaxTickSteps == 6

\* Horizon of the network specification, in clock steps of ClockStep ms:
\* a check of the link, a reconnection that fails, and the check after it.
MaxNetSteps == 11

\* Capacity of the whitelist in the model (Config.h:49 sets 50): the five
\* default cards and room for one more.
MAX_RFID_CARDS == 6

\* Horizon of the whitelist specification, in calls that write the whitelist
\* since the last boot.
MaxCardSteps == 3

---------------------------------------------------------------------------
(* Program constants *)

GATE_CLOSE_DELAY == 2000
CARD_SCAN_TIMEOUT == 10000
DISPLAY_MESSAGE_DURATION == 2000
SERVO_CLOSED_ANGLE == 0
SERVO_OPEN_ANGLE == 90

\* What Servo::read() has to say before the first write(): no position.
SERVO_UNWRITTEN == -1

\* sizeof ParkingSlot::cardUID and sizeof RFIDCard::uid
UID_BUFFER == 20

\* sizeof RFIDCard::ownerName
NAME_BUFFER == 32

DEFAULT_CARD_COUNT == 5

\* 0xABCD1234 stored in an int (EEPROMData::magic).
EEPROM_MAGIC == -1412623820

\* What an int of erased flash reads as: 0xFFFFFFFF.
ERASED_INT == -1

\* The period of the link check in NetworkManager::update().
WIFI_CHECK_INTERVAL == 10000

\* The timeouts of connect(): begin()'s default, and what update() and
\* reconnect() pass.
BEGIN_TIMEOUT == 15000
RECONNECT_TIMEOUT == 10000

\* connect() looks at the link every CONNECT_POLL ms; reconnect() waits
\* RECONNECT_SETTLE ms after disconnect().
CONNECT_POLL == 500
RECONNECT_SETTLE == 100

STATE_IDLE == "STATE_IDLE"
STATE_WAITING_CARD == "STATE_WAITING_CARD"
STATE_BARRIER_OPEN == "STATE_BARRIER_OPEN"
STATE_CLOSING_DELAY == "STATE_CLOSING_DELAY"
GateState == {STATE_IDLE, STATE_WAITING_CARD, STATE_BARRIER_OPEN, STATE_CLOSING_DELAY}

EVENT_VEHICLE_DETECTED == "EVENT_VEHICLE_DETECTED"
EVENT_VEHICLE_LEFT == "EVENT_VEHICLE_LEFT"
EVENT_CARD_SCANNED == "EVENT_CARD_SCANNED"
EVENT_CARD_DENIED == "EVENT_CARD_DENIED"
EVENT_PARKING_FULL == "EVENT_PARKING_FULL"
EVENT_VEHICLE_PASSED == "EVENT_VEHICLE_PASSED"
EVENT_TIMEOUT == "EVENT_TIMEOUT"

\* The two GateController objects of the firmware.
Gates == {"ENTRANCE", "EXIT"}

\* The whitelist resetToDefaults() writes.
DefaultCards ==
  << [uid |-> "0A1B2C3D", ownerName |-> "Admin", accessLevel |-> 1, isActive |-> TRUE],
     [uid |-> "1A2B3C4D", ownerName |-> "User1", accessLevel |-> 0, isActive |-> TRUE],
     [uid |-> "2A3B4C5D", ownerName |-> "User2", accessLevel |-> 0, isActive |-> TRUE],
     [uid |-> "83DF0756", ownerName |-> "Card1", accessLevel |-> 0, isActive |-> TRUE],
     [uid |-> "739E3F13", ownerName |-> "Card2", accessLevel |-> 0, isActive |-> TRUE] >>

\* Card UIDs a reader hands over: the whitelisted cards and a foreign one.
\* readCard() writes two hex digits per UID byte; these are 4-byte cards.
UnknownUID == "DEADBEEF"
CardUIDs == {DefaultCards[i].uid : i \in 1..Len(DefaultCards)} \cup {UnknownUID}

\* The UIDs of the scan results handed to a gate on its own: the gate only
\* stores and forwards the UID.
ScanUIDs == {DefaultCards[1].uid, UnknownUID}

\* Values an int that was never assigned may hold.
UninitInt == {-1, 0}

\* One step of the model's clock, in ms: the largest step that divides the
\* three timing constants, so that every timer is seen just below, exactly at
\* and above its limit.
ClockStep == GATE_CLOSE_DELAY

Min(a, b) == IF a < b THEN a ELSE b

---------------------------------------------------------------------------
(* unsigned long *)

\* unsigned long is 32 bits wide on the ESP32, and TLC's integers are 32 bits
\* wide and signed.  An unsigned long u is held as its two's-complement
\* reading: u itself below 2^31, and u - 2^32 from 2^31 on.  Addition and
\* subtraction modulo 2^32 are then the integers' own (2^32 - 1 is -1, and
\* -1 + 1 = 0 is the wrap of the counter); only the order is not: a negative
\* reading is a value of 2^31 or more, above every non-negative one.
ULongAdd(a, b) == a + b

ULongSub(a, b) == a - b

ULongLess(a, b) == IF (a >= 0) = (b >= 0) THEN a < b ELSE a >= 0

---------------------------------------------------------------------------
(* GateController *)

GateFields == {"state", "lastScannedCard", "stateStartTime", "eventCallback",
               "vehicleWasDetected", "initialized", "servo"}

\* The object the constructor leaves.
GateController ==
  [state |-> STATE_IDLE, lastScannedCard |-> "", stateStartTime |-> 0,
   eventCallback |-> FALSE, vehicleWasDetected |-> FALSE, initialized |-> FALSE,
   servo |-> SERVO_UNWRITTEN]

\* A call in progress: the object, millis(), and the calls made so far to the
\* event callback hook and to the servo.
Enter(g) == gate[g] @@ [fired |-> <<>>, clock |-> now, cmds |-> <<>>]

\* millis() advances while delay() blocks.
delay(m, ms) == [m EXCEPT !.clock = ULongAdd(@, ms)]

setServoAngle(m, angle) == [m EXCEPT !.servo = angle, !.cmds = Append(@, angle)]

\* Mutant: the state changes and its timer runs on.
setState_KeepsStartTime(m, newState) == [m EXCEPT !.state = newState]

setState(m, newState) == [m EXCEPT !.state = newState, !.stateStartTime = m.clock]

\* The callback, when one is set, runs here: it sees the object as it is now.
fireEvent(m, eventData) ==
  [m EXCEPT !.fired = Append(@, eventData @@ [delivered |-> m.eventCallback,
                                              stateSeen |-> m.state,
                                              servoSeen |-> m.servo])]

\* Mutant: no time has passed when millis() reads less than the start time.
getStateElapsedTime_NoWrap(m) ==
  IF ULongLess(m.clock, m.stateStartTime) THEN 0
  ELSE ULongSub(m.clock, m.stateStartTime)

getStateElapsedTime(m) == ULongSub(m.clock, m.stateStartTime)

GateController_begin(m) ==
  [setServoAngle(m, SERVO_CLOSED_ANGLE) EXCEPT
     !.state = STATE_IDLE, !.stateStartTime = m.clock, !.initialized = TRUE]

\* Mutant: the state changes and the servo is not written.
openGate_StateOnly(m, duration) == setState(m, STATE_BARRIER_OPEN)

openGate(m, duration) ==
  setState(setServoAngle(m, SERVO_OPEN_ANGLE), STATE_BARRIER_OPEN)

closeGate(m) == setServoAngle(m, SERVO_CLOSED_ANGLE)

\* Mutant: the state is reset and the barrier is left where it is.
reset_KeepsBarrier(m) == [setState(m, STATE_IDLE) EXCEPT !.lastScannedCard = ""]

reset(m) == [setState(closeGate(m), STATE_IDLE) EXCEPT !.lastScannedCard = ""]

isOpen(m) == m.state = STATE_BARRIER_OPEN \/ m.state = STATE_CLOSING_DELAY

\* GateEventData eventData; eventData.event = e;  cardUID is the empty String,
\* slotNumber is whatever the stack held.
UpdateEvent(e, junk) == [event |-> e, cardUID |-> "", slotNumber |-> junk]

\* case STATE_IDLE
\* Mutant: the reading alone decides, not its change since the last call.
updateIdle_LevelTriggered(m, vehicleDetected, junk) ==
  IF vehicleDetected
  THEN fireEvent(setState(m, STATE_WAITING_CARD), UpdateEvent(EVENT_VEHICLE_DETECTED, junk))
  ELSE m

updateIdle(m, vehicleDetected, junk) ==
  IF vehicleDetected /\ ~m.vehicleWasDetected
  THEN fireEvent(setState(m, STATE_WAITING_CARD), UpdateEvent(EVENT_VEHICLE_DETECTED, junk))
  ELSE m

\* Mutant: the timeout is looked at first, and the leaving only without one.
updateWaitingCard_TimeoutFirst(m, vehicleDetected, junk) ==
  IF ULongLess(CARD_SCAN_TIMEOUT, getStateElapsedTime(m))
  THEN fireEvent(setState(m, STATE_IDLE), UpdateEvent(EVENT_TIMEOUT, junk))
  ELSE IF ~vehicleDetected /\ m.vehicleWasDetected
  THEN fireEvent(setState(m, STATE_IDLE), UpdateEvent(EVENT_VEHICLE_LEFT, junk))
  ELSE m

\* case STATE_WAITING_CARD: the two ifs run one after the other, the second
\* on what the first left.
updateWaitingCard(m, vehicleDetected, junk) ==
  LET left ==
        IF ~vehicleDetected /\ m.vehicleWasDetected
        THEN fireEvent(setState(m, STATE_IDLE), UpdateEvent(EVENT_VEHICLE_LEFT, junk))
        ELSE m
  IN IF ULongLess(CARD_SCAN_TIMEOUT, getStateElapsedTime(left))
     THEN fireEvent(setState(left, STATE_IDLE), UpdateEvent(EVENT_TIMEOUT, junk))
     ELSE left

\* Mutant: the barrier's state is left for Idle at once, without the delay.
updateBarrierOpen_NoDelay(m, vehicleDetected, junk) ==
  IF ~vehicleDetected /\ m.vehicleWasDetected
  THEN fireEvent(setState(m, STATE_IDLE), UpdateEvent(EVENT_VEHICLE_PASSED, junk))
  ELSE m

\* Mutant: the barrier is also given up once the close delay has passed.
updateBarrierOpen_AutoClose(m, vehicleDetected, junk) ==
  IF ~vehicleDetected /\ m.vehicleWasDetected
  THEN fireEvent(setState(m, STATE_CLOSING_DELAY), UpdateEvent(EVENT_VEHICLE_PASSED, junk))
  ELSE IF ~ULongLess(getStateElapsedTime(m), GATE_CLOSE_DELAY)
  THEN setState(m, STATE_CLOSING_DELAY)
  ELSE m

\* case STATE_BARRIER_OPEN
updateBarrierOpen(m, vehicleDetected, junk) ==
  IF ~vehicleDetected /\ m.vehicleWasDetected
  THEN fireEvent(setState(m, STATE_CLOSING_DELAY), UpdateEvent(EVENT_VEHICLE_PASSED, junk))
  ELSE m

\* Mutant: the barrier is closed on the first call, without the delay.
updateClosingDelay_NoWait(m, vehicleDetected, junk) ==
  setState(closeGate(m), STATE_IDLE)

\* Mutant: the barrier is closed only once the sensor reads absent.
updateClosingDelay_WaitsForClear(m, vehicleDetected, junk) ==
  IF ~ULongLess(getStateElapsedTime(m), GATE_CLOSE_DELAY) /\ ~vehicleDetected
  THEN setState(closeGate(m), STATE_IDLE)
  ELSE m

\* case STATE_CLOSING_DELAY
\* Mutant: a clear sensor closes the barrier at once.
updateClosingDelay_ClosesWhenClear(m, vehicleDetected, junk) ==
  IF ~vehicleDetected \/ ~ULongLess(getStateElapsedTime(m), GATE_CLOSE_DELAY)
  THEN setState(closeGate(m), STATE_IDLE)
  ELSE m

updateClosingDelay(m, vehicleDetected, junk) ==
  IF ~ULongLess(getStateElapsedTime(m), GATE_CLOSE_DELAY)
  THEN setState(closeGate(m), STATE_IDLE)
  ELSE m

\* Mutant: the reading is not kept for the next call.
update_ForgetsReading(m, vehicleDetected, junk) ==
  IF ~m.initialized THEN m
  ELSE
    CASE m.state = STATE_IDLE -> updateIdle(m, vehicleDetected, junk)
      [] m.state = STATE_WAITING_CARD -> updateWaitingCard(m, vehicleDetected, junk)
      [] m.state = STATE_BARRIER_OPEN -> updateBarrierOpen(m, vehicleDetected, junk)
      [] m.state = STATE_CLOSING_DELAY -> updateClosingDelay(m, vehicleDetected, junk)

update(m, vehicleDetected, junk) ==
  IF ~m.initialized THEN m
  ELSE
    LET after ==
          CASE m.state = STATE_IDLE -> updateIdle(m, vehicleDetected, junk)
            [] m.state = STATE_WAITING_CARD -> updateWaitingCard(m, vehicleDetected, junk)
            [] m.state = STATE_BARRIER_OPEN -> updateBarrierOpen(m, vehicleDetected, junk)
            [] m.state = STATE_CLOSING_DELAY -> updateClosingDelay(m, vehicleDetected, junk)
    IN [after EXCEPT !.vehicleWasDetected = vehicleDetected]

\* Mutant: the parkingFull flag is not looked at.
scanResult_IgnoresFull(m, cardUID, authorized, slotNumber, parkingFull) ==
  LET m1 == [m EXCEPT !.lastScannedCard = cardUID]
      eventData(e) == [event |-> e, cardUID |-> cardUID, slotNumber |-> slotNumber]
  IN IF ~authorized
     THEN setState(delay(fireEvent(m1, eventData(EVENT_CARD_DENIED)),
                         DISPLAY_MESSAGE_DURATION), STATE_IDLE)
     ELSE openGate(fireEvent(m1, eventData(EVENT_CARD_SCANNED)), 0)

\* Mutant: the parkingFull flag is looked at before the authorization.
scanResult_FullFirst(m, cardUID, authorized, slotNumber, parkingFull) ==
  LET m1 == [m EXCEPT !.lastScannedCard = cardUID]
      eventData(e) == [event |-> e, cardUID |-> cardUID, slotNumber |-> slotNumber]
  IN IF parkingFull
     THEN setState(delay(fireEvent(m1, eventData(EVENT_PARKING_FULL)),
                         DISPLAY_MESSAGE_DURATION), STATE_IDLE)
     ELSE IF ~authorized
     THEN setState(delay(fireEvent(m1, eventData(EVENT_CARD_DENIED)),
                         DISPLAY_MESSAGE_DURATION), STATE_IDLE)
     ELSE openGate(fireEvent(m1, eventData(EVENT_CARD_SCANNED)), 0)

\* Mutant: eventData.slotNumber is not assigned; the events carry -1.
scanResult_EventWithoutSlot(m, cardUID, authorized, slotNumber, parkingFull) ==
  LET m1 == [m EXCEPT !.lastScannedCard = cardUID]
      eventData(e) == [event |-> e, cardUID |-> cardUID, slotNumber |-> -1]
  IN IF ~authorized
     THEN setState(delay(fireEvent(m1, eventData(EVENT_CARD_DENIED)),
                         DISPLAY_MESSAGE_DURATION), STATE_IDLE)
     ELSE IF parkingFull
     THEN setState(delay(fireEvent(m1, eventData(EVENT_PARKING_FULL)),
                         DISPLAY_MESSAGE_DURATION), STATE_IDLE)
     ELSE openGate(fireEvent(m1, eventData(EVENT_CARD_SCANNED)), 0)

\* handleCardScanned past its first if: the gate is in STATE_WAITING_CARD.
scanResult(m, cardUID, authorized, slotNumber, parkingFull) ==
  LET m1 == [m EXCEPT !.lastScannedCard = cardUID]
      eventData(e) == [event |-> e, cardUID |-> cardUID, slotNumber |-> slotNumber]
  IN IF ~authorized
     THEN setState(delay(fireEvent(m1, eventData(EVENT_CARD_DENIED)),
                         DISPLAY_MESSAGE_DURATION), STATE_IDLE)
     ELSE IF parkingFull
     THEN setState(delay(fireEvent(m1, eventData(EVENT_PARKING_FULL)),
                         DISPLAY_MESSAGE_DURATION), STATE_IDLE)
     ELSE openGate(fireEvent(m1, eventData(EVENT_CARD_SCANNED)), 0)

\* Mutant: the scan result is applied in whatever state the gate is.
handleCardScanned_AnyState(m, cardUID, authorized, slotNumber, parkingFull) ==
  scanResult(m, cardUID, authorized, slotNumber, parkingFull)

handleCardScanned(m, cardUID, authorized, slotNumber, parkingFull) ==
  IF m.state # STATE_WAITING_CARD THEN m
  ELSE scanResult(m, cardUID, authorized, slotNumber, parkingFull)

---------------------------------------------------------------------------
(* SlotManager *)

SlotIndex == 0..(TOTAL_SLOTS - 1)

\* String::toCharArray(buf, bufsize) copies at most bufsize - 1 characters.
toCharArray(str, bufsize) == SubSeq(str, 1, Min(Len(str), bufsize - 1))

\* millis() / 1000 on the unsigned value: 2^32 = 4294967 * 1000 + 296.
ULongSeconds(ms) ==
  IF ms >= 0 THEN ms \div 1000 ELSE 4294967 + ((296 + ms) \div 1000)

\* TLC keeps the fields of a record, and the strings of a set, in the order
\* in which the names first occur in the module; the records and sets that
\* are constants of the model are written in that order.

\* What _slots may hold before begin(): zeroes (an object in static storage)
\* or whatever the memory held.
UninitSlots ==
  { [i \in SlotIndex |-> [cardUID |-> UnknownUID, slotNumber |-> 1, occupied |-> TRUE,
                          entryTime |-> 1]],
    [i \in SlotIndex |-> [cardUID |-> "", slotNumber |-> 0, occupied |-> FALSE,
                          entryTime |-> 0]] }

\* The objects the constructor may leave.
SlotManager ==
  { [initialized |-> FALSE, slots |-> junk, availableSlots |-> TOTAL_SLOTS] :
      junk \in UninitSlots }

SlotManager_begin(S) ==
  [initialized |-> TRUE,
   slots |-> [i \in SlotIndex |-> [cardUID |-> "", slotNumber |-> i + 1,
                                   occupied |-> FALSE, entryTime |-> 0]],
   availableSlots |-> TOTAL_SLOTS]

\* The first index the loop stops at, or -1.
findSlotByCard(S, cardUID) ==
  LET hits == {i \in SlotIndex : S.slots[i].occupied /\ cardUID = S.slots[i].cardUID}
  IN IF hits = {} THEN -1
     ELSE S.slots[CHOOSE i \in hits : \A j \in hits : i <= j].slotNumber

\* Mutant: the scan runs from the last slot down.
findAvailableSlot_FromLast(S) ==
  LET free == {i \in SlotIndex : ~S.slots[i].occupied}
  IN IF free = {} THEN -1 ELSE CHOOSE i \in free : \A j \in free : i >= j

findAvailableSlot(S) ==
  LET free == {i \in SlotIndex : ~S.slots[i].occupied}
  IN IF free = {} THEN -1 ELSE CHOOSE i \in free : \A j \in free : i <= j

isValidSlotNumber(slotNumber) == slotNumber >= 1 /\ slotNumber <= TOTAL_SLOTS

slotNumberToIndex(slotNumber) == slotNumber - 1

getAvailableSlots(S) == S.availableSlots

\* Mutant: no look-up of the card's slot before a free slot is taken.
allocateSlot_NoLookup(S, cardUID, entryTime, clock) ==
  IF ~S.initialized THEN [mgr |-> S, value |-> -1]
  ELSE
    LET slotIndex == findAvailableSlot(S)
    IN IF slotIndex = -1 THEN [mgr |-> S, value |-> -1]
       ELSE
         [mgr |-> [S EXCEPT
                     !.slots[slotIndex].occupied = TRUE,
                     !.slots[slotIndex].cardUID = toCharArray(cardUID, UID_BUFFER),
                     !.slots[slotIndex].entryTime =
                        IF entryTime = 0 THEN ULongSeconds(clock) ELSE entryTime,
                     !.availableSlots = @ - 1],
          value |-> S.slots[slotIndex].slotNumber]

\* Mutant: a card that holds a slot gets the slot's entry time refreshed.
allocateSlot_Restamps(S, cardUID, entryTime, clock) ==
  IF ~S.initialized THEN [mgr |-> S, value |-> -1]
  ELSE
    LET existingSlot == findSlotByCard(S, cardUID)
        slotIndex == findAvailableSlot(S)
        stamp == IF entryTime = 0 THEN ULongSeconds(clock) ELSE entryTime
    IN IF existingSlot # -1
       THEN [mgr |-> [S EXCEPT !.slots[slotNumberToIndex(existingSlot)].entryTime = stamp],
             value |-> existingSlot]
       ELSE IF slotIndex = -1 THEN [mgr |-> S, value |-> -1]
       ELSE
         [mgr |-> [S EXCEPT
                     !.slots[slotIndex].occupied = TRUE,
                     !.slots[slotIndex].cardUID = toCharArray(cardUID, UID_BUFFER),
                     !.slots[slotIndex].entryTime = stamp,
                     !.availableSlots = @ - 1],
          value |-> S.slots[slotIndex].slotNumber]

\* Mutant: a full inventory is not told apart: the first slot is given away.
allocateSlot_NoFullCheck(S, cardUID, entryTime, clock) ==
  IF ~S.initialized THEN [mgr |-> S, value |-> -1]
  ELSE
    LET existingSlot == findSlotByCard(S, cardUID)
        found == findAvailableSlot(S)
        slotIndex == IF found = -1 THEN 0 ELSE found
    IN IF existingSlot # -1 THEN [mgr |-> S, value |-> existingSlot]
       ELSE
         [mgr |-> [S EXCEPT
                     !.slots[slotIndex].occupied = TRUE,
                     !.slots[slotIndex].cardUID = toCharArray(cardUID, UID_BUFFER),
                     !.slots[slotIndex].entryTime =
                        IF entryTime = 0 THEN ULongSeconds(clock) ELSE entryTime,
                     !.availableSlots = @ - 1],
          value |-> S.slots[slotIndex].slotNumber]

\* Mutant: a full inventory is answered with -1 after the counter went down.
allocateSlot_FullCountsDown(S, cardUID, entryTime, clock) ==
  IF ~S.initialized THEN [mgr |-> S, value |-> -1]
  ELSE
    LET existingSlot == findSlotByCard(S, cardUID)
        slotIndex == findAvailableSlot(S)
    IN IF existingSlot # -1 THEN [mgr |-> S, value |-> existingSlot]
       ELSE IF slotIndex = -1
       THEN [mgr |-> [S EXCEPT !.availableSlots = @ - 1], value |-> -1]
       ELSE
         [mgr |-> [S EXCEPT
                     !.slots[slotIndex].occupied = TRUE,
                     !.slots[slotIndex].cardUID = toCharArray(cardUID, UID_BUFFER),
                     !.slots[slotIndex].entryTime =
                        IF entryTime = 0 THEN ULongSeconds(clock) ELSE entryTime,
                     !.availableSlots = @ - 1],
          value |-> S.slots[slotIndex].slotNumber]

\* Each call returns the object as the call leaves it and the value returned.
allocateSlot(S, cardUID, entryTime, clock) ==
  IF ~S.initialized THEN [mgr |-> S, value |-> -1]
  ELSE
    LET existingSlot == findSlotByCard(S, cardUID)
        slotIndex == findAvailableSlot(S)
    IN IF existingSlot # -1 THEN [mgr |-> S, value |-> existingSlot]
       ELSE IF slotIndex = -1 THEN [mgr |-> S, value |-> -1]
       ELSE
         [mgr |-> [S EXCEPT
                     !.slots[slotIndex].occupied = TRUE,
                     !.slots[slotIndex].cardUID = toCharArray(cardUID, UID_BUFFER),
                     !.slots[slotIndex].entryTime =
                        IF entryTime = 0 THEN ULongSeconds(clock) ELSE entryTime,
                     !.availableSlots = @ - 1],
          value |-> S.slots[slotIndex].slotNumber]

\* Mutant: a free slot is released again.
releaseSlot_NoOccupiedCheck(S, slotNumber, clock) ==
  IF ~S.initialized \/ ~isValidSlotNumber(slotNumber) THEN [mgr |-> S, value |-> 0]
  ELSE
    LET index == slotNumberToIndex(slotNumber)
    IN [mgr |-> [S EXCEPT
                   !.slots[index].occupied = FALSE,
                   !.slots[index].cardUID = "",
                   !.slots[index].entryTime = 0,
                   !.availableSlots = @ + 1],
        value |-> ULongSub(ULongSeconds(clock), S.slots[index].entryTime)]

\* Mutant: a slot that is not occupied is counted as freed.
releaseSlot_CountsAnyway(S, slotNumber, clock) ==
  IF ~S.initialized \/ ~isValidSlotNumber(slotNumber) THEN [mgr |-> S, value |-> 0]
  ELSE
    LET index == slotNumberToIndex(slotNumber)
    IN IF ~S.slots[index].occupied
       THEN [mgr |-> [S EXCEPT !.availableSlots = @ + 1], value |-> 0]
       ELSE
         [mgr |-> [S EXCEPT
                     !.slots[index].occupied = FALSE,
                     !.slots[index].cardUID = "",
                     !.slots[index].entryTime = 0,
                     !.availableSlots = @ + 1],
          value |-> ULongSub(ULongSeconds(clock), S.slots[index].entryTime)]

\* Mutant: the released slot keeps its entry time.
releaseSlot_KeepsStamp(S, slotNumber, clock) ==
  IF ~S.initialized \/ ~isValidSlotNumber(slotNumber) THEN [mgr |-> S, value |-> 0]
  ELSE
    LET index == slotNumberToIndex(slotNumber)
    IN IF ~S.slots[index].occupied THEN [mgr |-> S, value |-> 0]
       ELSE
         [mgr |-> [S EXCEPT
                     !.slots[index].occupied = FALSE,
                     !.slots[index].cardUID = "",
                     !.availableSlots = @ + 1],
          value |-> ULongSub(ULongSeconds(clock), S.slots[index].entryTime)]

releaseSlot(S, slotNumber, clock) ==
  IF ~S.initialized \/ ~isValidSlotNumber(slotNumber) THEN [mgr |-> S, value |-> 0]
  ELSE
    LET index == slotNumberToIndex(slotNumber)
    IN IF ~S.slots[index].occupied THEN [mgr |-> S, value |-> 0]
       ELSE
         [mgr |-> [S EXCEPT
                     !.slots[index].occupied = FALSE,
                     !.slots[index].cardUID = "",
                     !.slots[index].entryTime = 0,
                     !.availableSlots = @ + 1],
          value |-> ULongSub(ULongSeconds(clock), S.slots[index].entryTime)]

\* slotNumber is the reference parameter the caller reads afterwards.
\* Mutant: the first occupied slot is released, whoever holds it.
releaseSlotByCard_AnyHolder(S, cardUID, clock) ==
  LET hits == {i \in SlotIndex : S.slots[i].occupied}
      slotNumber == IF hits = {} THEN -1
                    ELSE S.slots[CHOOSE i \in hits : \A j \in hits : i <= j].slotNumber
  IN IF slotNumber = -1 THEN [slotNumber |-> slotNumber, mgr |-> S, value |-> 0]
     ELSE releaseSlot(S, slotNumber, clock) @@ [slotNumber |-> slotNumber]

releaseSlotByCard(S, cardUID, clock) ==
  LET slotNumber == findSlotByCard(S, cardUID)
  IN IF slotNumber = -1 THEN [slotNumber |-> slotNumber, mgr |-> S, value |-> 0]
     ELSE releaseSlot(S, slotNumber, clock) @@ [slotNumber |-> slotNumber]

\* Mutant: the slots are cleared and the counter is left as it is.
clearAllSlots_KeepsCount(S) ==
  [S EXCEPT
     !.slots = [i \in SlotIndex |-> [S.slots[i] EXCEPT !.occupied = FALSE,
                                                      !.cardUID = "",
                                                      !.entryTime = 0]]]

clearAllSlots(S) ==
  [S EXCEPT
     !.slots = [i \in SlotIndex |-> [S.slots[i] EXCEPT !.occupied = FALSE,
                                                      !.cardUID = "",
                                                      !.entryTime = 0]],
     !.availableSlots = TOTAL_SLOTS]

---------------------------------------------------------------------------
(* RFIDManager *)

\* The loop over _cards: a record with this UID that is active.
\* Mutant: a card that is switched off is authorized too.
isAuthorized_IgnoresActive(cards, uid) ==
  \E i \in 1..Len(cards) : cards[i].uid = uid

isAuthorized(cards, uid) ==
  \E i \in 1..Len(cards) : cards[i].uid = uid /\ cards[i].isActive

CardIndex == 0..(MAX_RFID_CARDS - 1)

\* An entry of _authorizedCards, or of EEPROMData::cards, that was never
\* written.  No code reads such an entry: every loop stops at the card count.
BlankCard == [uid |-> "", ownerName |-> "", accessLevel |-> 0, isActive |-> FALSE]

\* The object the constructor leaves.
RFIDManager ==
  [initialized |-> FALSE, authorizedCards |-> [i \in CardIndex |-> BlankCard],
   numCards |-> 0]

getCardCount(R) == R.numCards

\* The whitelist: the first _numCards entries of the array, in their order.
Whitelist(R) == [k \in 1..R.numCards |-> R.authorizedCards[k - 1]]

\* The first index the loop stops at, or -1.
findCardIndex(R, uid) ==
  LET hits == {i \in CardIndex : i < R.numCards /\ uid = R.authorizedCards[i].uid}
  IN IF hits = {} THEN -1 ELSE CHOOSE i \in hits : \A j \in hits : i <= j

\* EEPROMData as saveToEEPROM() fills it; the entries from _numCards on are
\* what the stack held.
Snapshot(R) ==
  [cards |-> [i \in CardIndex |->
                IF i < R.numCards THEN R.authorizedCards[i] ELSE BlankCard],
   numCards |-> R.numCards, magic |-> EEPROM_MAGIC]

\* Mutant: the snapshot is written with the count of before the call.
saveToEEPROM_StaleCount(R, E, commits) ==
  LET data == [Snapshot(R) EXCEPT !.numCards = E.data.numCards]
  IN [mgr |-> R,
      value |-> commits,
      store |-> [data |-> data, flash |-> IF commits THEN data ELSE E.flash]]

\* EEPROM.put(0, data) writes the RAM copy; EEPROM.commit() writes the RAM
\* copy to flash and tells whether that worked.
saveToEEPROM(R, E, commits) ==
  LET data == Snapshot(R)
  IN [mgr |-> R,
      value |-> commits,
      store |-> [data |-> data, flash |-> IF commits THEN data ELSE E.flash]]

loadFromEEPROM(R, E) ==
  LET data == E.data
  IN IF data.magic = EEPROM_MAGIC /\ data.numCards >= 0 /\ data.numCards <= MAX_RFID_CARDS
     THEN [mgr |-> [R EXCEPT
                      !.numCards = data.numCards,
                      !.authorizedCards =
                         [i \in CardIndex |->
                            IF i < data.numCards THEN data.cards[i]
                            ELSE R.authorizedCards[i]]],
           value |-> TRUE, store |-> E]
     ELSE [mgr |-> R, value |-> FALSE, store |-> E]

resetToDefaults(R, E, commits) ==
  saveToEEPROM([R EXCEPT
                  !.numCards = DEFAULT_CARD_COUNT,
                  !.authorizedCards =
                     [i \in CardIndex |->
                        IF i < DEFAULT_CARD_COUNT THEN DefaultCards[i + 1]
                        ELSE R.authorizedCards[i]]],
               E, commits)

initializeEEPROM(R, E, commits) ==
  IF E.data.magic # EEPROM_MAGIC THEN resetToDefaults(R, E, commits)
  ELSE [mgr |-> R, value |-> TRUE, store |-> E]

\* EEPROM.begin() reads the flash into the RAM copy.
RFIDManager_begin(R, E, commits) ==
  LET seeded == initializeEEPROM(R, [E EXCEPT !.data = E.flash], commits)
      loaded == loadFromEEPROM(seeded.mgr, seeded.store)
  IN [mgr |-> [loaded.mgr EXCEPT !.initialized = TRUE],
      value |-> loaded.value, store |-> loaded.store]

\* Mutant: a card is added to a full whitelist over its last entry.
addCard_NoFullCheck(R, E, uid, ownerName, accessLevel, commits) ==
  IF findCardIndex(R, uid) # -1 THEN [mgr |-> R, value |-> FALSE, store |-> E]
  ELSE
    LET at == Min(R.numCards, MAX_RFID_CARDS - 1)
    IN saveToEEPROM([R EXCEPT
                       !.authorizedCards[at] =
                          [uid |-> toCharArray(uid, UID_BUFFER),
                           ownerName |-> toCharArray(ownerName, NAME_BUFFER),
                           accessLevel |-> accessLevel,
                           isActive |-> TRUE],
                       !.numCards = at + 1],
                    E, commits)

addCard(R, E, uid, ownerName, accessLevel, commits) ==
  IF findCardIndex(R, uid) # -1 THEN [mgr |-> R, value |-> FALSE, store |-> E]
  ELSE IF R.numCards >= MAX_RFID_CARDS THEN [mgr |-> R, value |-> FALSE, store |-> E]
  ELSE saveToEEPROM([R EXCEPT
                       !.authorizedCards[R.numCards] =
                          [uid |-> toCharArray(uid, UID_BUFFER),
                           ownerName |-> toCharArray(ownerName, NAME_BUFFER),
                           accessLevel |-> accessLevel,
                           isActive |-> TRUE],
                       !.numCards = @ + 1],
                    E, commits)

\* The loop copies entry i + 1 to entry i, from index up; the entry that was
\* the last stays where it was, behind the new count.
removeCard(R, E, uid, commits) ==
  LET index == findCardIndex(R, uid)
  IN IF index = -1 THEN [mgr |-> R, value |-> FALSE, store |-> E]
     ELSE saveToEEPROM([R EXCEPT
                          !.authorizedCards =
                             [i \in CardIndex |->
                                IF i >= index /\ i < R.numCards - 1
                                THEN R.authorizedCards[i + 1] ELSE R.authorizedCards[i]],
                          !.numCards = @ - 1],
                       E, commits)

\* updateCard's ownerName when the caller passes nullptr.
NullName == "nullptr"

\* strncpy(dst, src, n); dst[n - 1] = '\0'
strncpy(src, n) == SubSeq(src, 1, Min(Len(src), n - 1))

\* Mutant: the access level is written whatever its value.
updateCard_AlwaysWritesLevel(R, E, uid, ownerName, accessLevel, commits) ==
  LET index == findCardIndex(R, uid)
  IN IF index = -1 THEN [mgr |-> R, value |-> FALSE, store |-> E]
     ELSE saveToEEPROM([R EXCEPT
                          !.authorizedCards[index].ownerName =
                             IF ownerName # NullName THEN strncpy(ownerName, NAME_BUFFER)
                             ELSE @,
                          !.authorizedCards[index].accessLevel = accessLevel],
                       E, commits)

updateCard(R, E, uid, ownerName, accessLevel, commits) ==
  LET index == findCardIndex(R, uid)
  IN IF index = -1 THEN [mgr |-> R, value |-> FALSE, store |-> E]
     ELSE saveToEEPROM([R EXCEPT
                          !.authorizedCards[index].ownerName =
                             IF ownerName # NullName THEN strncpy(ownerName, NAME_BUFFER)
                             ELSE @,
                          !.authorizedCards[index].accessLevel =
                             IF accessLevel >= 0 THEN accessLevel ELSE @],
                       E, commits)

clearAllCards(R, E, commits) == saveToEEPROM([R EXCEPT !.numCards = 0], E, commits)

\* A UID of 10 bytes, as readCard() writes it (20 hex digits), a second one
\* that differs in the last digit, and what a buffer of 20 chars keeps of
\* both.
LongUID == "04A1B2C3D4E5F6A7B8C9"
LongUID2 == "04A1B2C3D4E5F6A7B8CA"
CutUID == toCharArray(LongUID, UID_BUFFER)

\* The records of an EEPROMData whose first entries are the cards of seq.
CardsOf(seq) == [i \in CardIndex |-> IF i < Len(seq) THEN seq[i + 1] ELSE BlankCard]

\* Flash that was never written.
ErasedSnapshot ==
  [cards |-> CardsOf(<<>>), numCards |-> ERASED_INT, magic |-> ERASED_INT]

\* Two cards more than the default ones.
MoreCards ==
  << [uid |-> "CAFEF00D", ownerName |-> "Guest1", accessLevel |-> 2, isActive |-> TRUE],
     [uid |-> "FEEDFACE", ownerName |-> "Guest2", accessLevel |-> 2, isActive |-> TRUE] >>

\* A whitelist of two cards: a default card switched off, and a card that is
\* not among the default ones.
TwoCards ==
  << [DefaultCards[1] EXCEPT !.isActive = FALSE],
     [uid |-> UnknownUID, ownerName |-> "Guest", accessLevel |-> 2, isActive |-> TRUE] >>

\* A whitelist of MAX_RFID_CARDS cards.
FullCards == SubSeq(DefaultCards \o MoreCards, 1, MAX_RFID_CARDS)

\* What the flash may hold at the first boot: nothing; a snapshot with the
\* tag and two, no or MAX_RFID_CARDS cards; a snapshot with the tag and a
\* count below 0 or above MAX_RFID_CARDS; cards without the tag.
StoredSnapshots ==
  { ErasedSnapshot,
    [cards |-> CardsOf(TwoCards), numCards |-> 2, magic |-> EEPROM_MAGIC],
    [cards |-> CardsOf(<<>>), numCards |-> 0, magic |-> EEPROM_MAGIC],
    [cards |-> CardsOf(FullCards), numCards |-> MAX_RFID_CARDS, magic |-> EEPROM_MAGIC],
    [cards |-> CardsOf(TwoCards), numCards |-> -1, magic |-> EEPROM_MAGIC],
    [cards |-> CardsOf(FullCards), numCards |-> MAX_RFID_CARDS + 1,
     magic |-> EEPROM_MAGIC],
    [cards |-> CardsOf(TwoCards), numCards |-> 2, magic |-> 0] }

---------------------------------------------------------------------------
(* NetworkManager *)

NetFields == {"autoReconnect", "lastCheckTime", "connectionTime", "reconnectCount",
              "wasConnected"}

\* The object the constructor leaves.
NetworkManager ==
  [autoReconnect |-> TRUE, lastCheckTime |-> 0, connectionTime |-> 0,
   reconnectCount |-> 0, wasConnected |-> FALSE]

\* The link is down and no connection is under way.
NEVER == -1

\* What WiFi.begin() may be answered with: the link is up at once, after
\* CONNECT_POLL ms, or not at all.
ConnectTimes == {0, CONNECT_POLL, NEVER}

\* A call in progress: the object, millis(), the ms after which WiFi.status()
\* is WL_CONNECTED (0: it is), the calls of reconnect() so far, and what the
\* last connect() returned.
NetEnter ==
  netMgr @@ [clock |-> now, upIn |-> IF wifi THEN 0 ELSE NEVER, reconnects |-> 0,
             success |-> FALSE]

isConnected(n) == n.upIn = 0

\* delay(ms) on the network side: millis() advances and a connection under
\* way comes closer.
linkDelay(n, ms) ==
  [n EXCEPT !.clock = ULongAdd(@, ms),
            !.upIn = IF @ = NEVER THEN NEVER ELSE IF @ > ms THEN @ - ms ELSE 0]

disconnect(n) == [n EXCEPT !.upIn = NEVER]

\* The while loop of connect(): attempts counts the delays so far.
RECURSIVE connectLoop(_, _, _, _)
connectLoop(n, startTime, attempts, timeout) ==
  IF ~isConnected(n) /\ ULongLess(ULongSub(n.clock, startTime), timeout)
  THEN LET waited == linkDelay(n, CONNECT_POLL)
       IN IF attempts + 1 > timeout \div CONNECT_POLL
          THEN waited
          ELSE connectLoop(waited, startTime, attempts + 1, timeout)
  ELSE n

\* connect(timeout); answer is what WiFi.begin() is answered with.
connect(n, timeout, answer) ==
  LET begun == [n EXCEPT !.upIn = answer]
      after == connectLoop(begun, begun.clock, 0, timeout)
  IN IF isConnected(after)
     THEN [after EXCEPT !.connectionTime = after.clock, !.wasConnected = TRUE,
                        !.success = TRUE]
     ELSE [after EXCEPT !.success = FALSE]

NetworkManager_begin(n, timeout, answer) == connect(n, timeout, answer)

reconnect(n, timeout, answer) ==
  LET tried == connect(linkDelay(disconnect([n EXCEPT !.reconnects = @ + 1]),
                                 RECONNECT_SETTLE),
                       timeout, answer)
  IN IF tried.success THEN [tried EXCEPT !.reconnectCount = @ + 1] ELSE tried

\* update(): currentTime and currentlyConnected are read once, before
\* reconnect() runs.
NetworkManager_update(n, answer) ==
  LET currentTime == n.clock
  IN IF ~ULongLess(ULongSub(currentTime, n.lastCheckTime), WIFI_CHECK_INTERVAL)
     THEN LET currentlyConnected == isConnected(n)
              checked == [n EXCEPT !.lastCheckTime = currentTime]
              lost == IF checked.wasConnected /\ ~currentlyConnected /\ checked.autoReconnect
                      THEN reconnect(checked, RECONNECT_TIMEOUT, answer)
                      ELSE checked
              established == IF ~lost.wasConnected /\ currentlyConnected
                             THEN [lost EXCEPT !.connectionTime = currentTime]
                             ELSE lost
          IN [established EXCEPT !.wasConnected = currentlyConnected]
     ELSE n

setAutoReconnect(n, enable) == [n EXCEPT !.autoReconnect = enable]

---------------------------------------------------------------------------
(* History variables *)

\* "No call yet", and the fields every entry of op has: the call's name and
\* arguments, the gate object as the call found it, and of the slot manager
\* as the call found it the slot of the call's card and the free-slot counter.
NoCall ==
  [gate |-> "none", cardUID |-> "", slotNumber |-> 0, vehicleDetected |-> FALSE,
   authorized |-> FALSE, parkingFull |-> FALSE, name |-> "none",
   pre |-> GateController, preSlot |-> 0, preAvailable |-> 0]

NoReturn == [slotNumber |-> 0, value |-> 0]

Silent == [g \in Gates |-> <<>>]

\* "No call yet" on the RFIDManager, and the fields every entry of cardOp
\* has: the call's name and arguments, whether EEPROM.commit() worked during
\* it, what it returned, findCardIndex(uid) and the card count as the call
\* found them, and the number of calls so far that write the whitelist.
NoCardCall ==
  [uid |-> "", ownerName |-> "", accessLevel |-> 0, value |-> FALSE, commits |-> TRUE,
   name |-> "none", preIndex |-> -1, preCount |-> 0, calls |-> 0]

\* "No call yet" on the NetworkManager, and the fields every entry of netOp
\* has: the name of the call or of the link's change, the calls of
\* reconnect() made during it, whether the call was an update() that found
\* its check of the link due, and whether the object has had a connection:
\* a connect() of its own that succeeded, or an update() that found the link
\* up.
NoNetCall == [reconnects |-> 0, checked |-> FALSE, name |-> "none", hadLink |-> FALSE]

\* The end of a call on gate g that ran as m.
GateReturns(g, m, call, limit) ==
  /\ m.clock <= limit
  /\ gate' = [gate EXCEPT ![g] = [f \in GateFields |-> m[f]]]
  /\ now' = m.clock
  /\ fired' = [Silent EXCEPT ![g] = m.fired]
  /\ servoCmds' = [Silent EXCEPT ![g] = m.cmds]
  /\ op' = [call EXCEPT !.gate = g, !.pre = gate[g]]
  /\ ret' = NoReturn
  /\ sensed' = IF call.name = "update" /\ gate[g].initialized
               THEN [sensed EXCEPT ![g] = call.vehicleDetected] ELSE sensed
  /\ UNCHANGED <<slotMgr, rfidMgr, eeprom, cardOp, netMgr, wifi, netOp>>

\* The end of a call on the slot manager with result r.
SlotReturns(r, call) ==
  /\ slotMgr' = r.mgr
  /\ ret' = [slotNumber |-> IF "slotNumber" \in DOMAIN r THEN r.slotNumber ELSE 0,
             value |-> r.value]
  /\ op' = [call EXCEPT !.preSlot = findSlotByCard(slotMgr, call.cardUID),
                         !.preAvailable = getAvailableSlots(slotMgr)]
  /\ fired' = Silent
  /\ servoCmds' = Silent
  /\ UNCHANGED <<gate, now, sensed, rfidMgr, eeprom, cardOp, netMgr, wifi, netOp>>

---------------------------------------------------------------------------
(* The calls on a gate, as actions *)

GateBegin(g) ==
  GateReturns(g, GateController_begin(Enter(g)), [NoCall EXCEPT !.name = "begin"], now)

SetEventCallback(g) ==
  \E callback \in BOOLEAN :
    GateReturns(g, [Enter(g) EXCEPT !.eventCallback = callback],
                [NoCall EXCEPT !.name = "setEventCallback"], now)

Update(g) ==
  \E vehicleDetected \in BOOLEAN, junk \in UninitInt :
    GateReturns(g, update(Enter(g), vehicleDetected, junk),
                [NoCall EXCEPT !.name = "update", !.vehicleDetected = vehicleDetected],
                now)

\* Slot numbers a scan result carries: none, the first and the last slot.
SlotArgs == {-1, 1, TOTAL_SLOTS}

HandleCardScanned(g, limit) ==
  \E cardUID \in ScanUIDs, authorized \in BOOLEAN,
     slotNumber \in SlotArgs, parkingFull \in BOOLEAN :
    GateReturns(g, handleCardScanned(Enter(g), cardUID, authorized, slotNumber, parkingFull),
                [NoCall EXCEPT !.name = "handleCardScanned", !.cardUID = cardUID,
                               !.authorized = authorized, !.slotNumber = slotNumber,
                               !.parkingFull = parkingFull],
                limit)

OpenGate(g) ==
  \E duration \in {0, GATE_CLOSE_DELAY} :
    GateReturns(g, openGate(Enter(g), duration), [NoCall EXCEPT !.name = "openGate"], now)

CloseGate(g) ==
  GateReturns(g, closeGate(Enter(g)), [NoCall EXCEPT !.name = "closeGate"], now)

Reset(g) ==
  GateReturns(g, reset(Enter(g)), [NoCall EXCEPT !.name = "reset"], now)

\* Time passes between two calls.
Elapse(limit) ==
  /\ now + ClockStep <= limit
  /\ now' = ULongAdd(now, ClockStep)
  /\ op' = [NoCall EXCEPT !.name = "elapse"]
  /\ ret' = NoReturn
  /\ fired' = Silent
  /\ servoCmds' = Silent
  /\ UNCHANGED <<gate, slotMgr, sensed, rfidMgr, eeprom, cardOp, netMgr, wifi, netOp>>

---------------------------------------------------------------------------
(* The calls on the slot manager, as actions *)

\* The cards of the calls: four of the default cards, one more than the model
\* has slots, so that the inventory can be filled and one card is left over.
SlotUIDs == {DefaultCards[i].uid : i \in 1..4}

SlotBegin ==
  SlotReturns([mgr |-> SlotManager_begin(slotMgr), value |-> 1],
              [NoCall EXCEPT !.name = "SlotManager::begin"])

\* entryTime is 0 ("use the clock") or the caller's reading of the clock.
AllocateSlot ==
  \E cardUID \in SlotUIDs, entryTime \in {0, ULongSeconds(now)} :
    SlotReturns(allocateSlot(slotMgr, cardUID, entryTime, now),
                [NoCall EXCEPT !.name = "allocateSlot", !.cardUID = cardUID])

ReleaseSlot ==
  \E slotNumber \in -1..(TOTAL_SLOTS + 1) :
    SlotReturns(releaseSlot(slotMgr, slotNumber, now),
                [NoCall EXCEPT !.name = "releaseSlot", !.slotNumber = slotNumber])

ReleaseSlotByCard ==
  \E cardUID \in SlotUIDs :
    SlotReturns(releaseSlotByCard(slotMgr, cardUID, now),
                [NoCall EXCEPT !.name = "releaseSlotByCard", !.cardUID = cardUID])

ClearAllSlots ==
  SlotReturns([mgr |-> clearAllSlots(slotMgr), value |-> 0],
              [NoCall EXCEPT !.name = "clearAllSlots"])

---------------------------------------------------------------------------
(* The calls on the RFIDManager, as actions *)

\* The UIDs the calls are made with.
WhitelistUIDs == {DefaultCards[1].uid, UnknownUID, LongUID, LongUID2, CutUID}

\* The end of a call on the RFIDManager that returned r.
CardReturns(r, call, written) ==
  /\ rfidMgr' = r.mgr
  /\ eeprom' = r.store
  /\ cardOp' = [call EXCEPT !.value = r.value,
                             !.preIndex = findCardIndex(rfidMgr, call.uid),
                             !.preCount = getCardCount(rfidMgr),
                             !.calls = cardOp.calls + written]
  /\ UNCHANGED <<gate, slotMgr, now, op, ret, fired, servoCmds, sensed, netMgr, wifi, netOp>>

\* A call that writes the whitelist: after begin(), and within the horizon.
MayWrite == rfidMgr.initialized /\ cardOp.calls < MaxCardSteps

\* Power is lost: the object is constructed again, and the RAM copy of the
\* EEPROM is gone.
Restart ==
  /\ rfidMgr.initialized
  /\ CardReturns([mgr |-> RFIDManager, value |-> FALSE,
                  store |-> [data |-> eeprom.flash, flash |-> eeprom.flash]],
                 [NoCardCall EXCEPT !.name = "restart"], 0)

\* begin() is called once after each boot.
RfidBegin ==
  /\ ~rfidMgr.initialized
  /\ \E commits \in BOOLEAN :
       CardReturns(RFIDManager_begin(rfidMgr, eeprom, commits),
                   [NoCardCall EXCEPT !.name = "RFIDManager::begin", !.commits = commits], 0)

IsAuthorized ==
  /\ rfidMgr.initialized
  /\ \E uid \in WhitelistUIDs :
       CardReturns([mgr |-> rfidMgr, value |-> isAuthorized(Whitelist(rfidMgr), uid),
                    store |-> eeprom],
                   [NoCardCall EXCEPT !.name = "isAuthorized", !.uid = uid], 0)

AddCard ==
  /\ MayWrite
  /\ \E uid \in WhitelistUIDs, commits \in BOOLEAN :
       CardReturns(addCard(rfidMgr, eeprom, uid, "Guest", 2, commits),
                   [NoCardCall EXCEPT !.name = "addCard", !.uid = uid,
                                      !.ownerName = "Guest", !.accessLevel = 2,
                                      !.commits = commits], 1)

RemoveCard ==
  /\ MayWrite
  /\ \E uid \in WhitelistUIDs, commits \in BOOLEAN :
       CardReturns(removeCard(rfidMgr, eeprom, uid, commits),
                   [NoCardCall EXCEPT !.name = "removeCard", !.uid = uid,
                                      !.commits = commits], 1)

\* ownerName may be nullptr and accessLevel negative: "leave as it is".
UpdateCard ==
  /\ MayWrite
  /\ \E uid \in {DefaultCards[1].uid, UnknownUID, LongUID},
        ownerName \in {NullName, "Owner"}, accessLevel \in {-1, 1},
        commits \in BOOLEAN :
       CardReturns(updateCard(rfidMgr, eeprom, uid, ownerName, accessLevel, commits),
                   [NoCardCall EXCEPT !.name = "updateCard", !.uid = uid,
                                      !.ownerName = ownerName,
                                      !.accessLevel = accessLevel,
                                      !.commits = commits], 1)

ClearAllCards ==
  /\ MayWrite
  /\ \E commits \in BOOLEAN :
       CardReturns(clearAllCards(rfidMgr, eeprom, commits),
                   [NoCardCall EXCEPT !.name = "clearAllCards", !.commits = commits], 1)

\* resetToDefaults() returns nothing; the value kept is what its
\* saveToEEPROM() returned.
ResetToDefaults ==
  /\ MayWrite
  /\ \E commits \in BOOLEAN :
       CardReturns(resetToDefaults(rfidMgr, eeprom, commits),
                   [NoCardCall EXCEPT !.name = "resetToDefaults", !.commits = commits], 1)

---------------------------------------------------------------------------
(* The calls on the NetworkManager and the link, as actions *)

\* The end of a call on the NetworkManager that ran as n.
NetReturns(n, name, checked, limit) ==
  /\ n.clock <= limit
  /\ netMgr' = [f \in NetFields |-> n[f]]
  /\ wifi' = isConnected(n)
  /\ now' = n.clock
  /\ netOp' = [reconnects |-> n.reconnects, checked |-> checked, name |-> name,
               hadLink |-> netOp.hadLink \/ n.success \/ n.wasConnected]
  /\ UNCHANGED <<gate, slotMgr, op, ret, fired, servoCmds, sensed, rfidMgr, eeprom, cardOp>>

\* The check of the link in update() is due at millis() = now.
CheckDue == ~ULongLess(ULongSub(now, netMgr.lastCheckTime), WIFI_CHECK_INTERVAL)

\* begin() is called once, in setup().
NetBegin(limit) ==
  /\ netOp.name = "none"
  /\ \E answer \in ConnectTimes :
       NetReturns(NetworkManager_begin(NetEnter, BEGIN_TIMEOUT, answer),
                  "NetworkManager::begin", FALSE, limit)

NetUpdate(limit) ==
  /\ netOp.name # "none"
  /\ \E answer \in ConnectTimes :
       NetReturns(NetworkManager_update(NetEnter, answer),
                  "NetworkManager::update", CheckDue, limit)

SetAutoReconnect ==
  /\ netOp.name # "none"
  /\ \E enable \in BOOLEAN :
       NetReturns(setAutoReconnect(NetEnter, enable), "setAutoReconnect", FALSE, now)

\* The link changes on its own: it is lost, or the WiFi stack gets it back.
LinkChanges ==
  /\ netOp.name # "none"
  /\ wifi' = ~wifi
  /\ netOp' = [netOp EXCEPT !.name = "link", !.reconnects = 0, !.checked = FALSE]
  /\ UNCHANGED <<gate, slotMgr, now, op, ret, fired, servoCmds, sensed, rfidMgr, eeprom,
                 cardOp, netMgr>>

---------------------------------------------------------------------------
(* The main loop *)

\* What a reader hands over on a poll: no card, or a card's UID.
NoCard == ""

\* The lowest default card that holds no slot.  The allocator and the gate
\* tell cards apart by equality only, so one card stands for every
\* whitelisted card that holds no slot.
NewCard(S) ==
  DefaultCards[CHOOSE i \in 1..Len(DefaultCards) :
                 /\ findSlotByCard(S, DefaultCards[i].uid) = -1
                 /\ \A j \in 1..(i - 1) : findSlotByCard(S, DefaultCards[j].uid) # -1].uid

\* What the entrance reader may hand over: nothing, a foreign card, the first
\* default card (a card that came in before, once it has), and a whitelisted
\* card that holds no slot.  The exit reader sees the first default card.
EntranceReads(S) == {DefaultCards[1].uid, NewCard(S), UnknownUID, NoCard}

ExitReads == {DefaultCards[1].uid, NoCard}

\* The objects after setup(): both gates begun with their callbacks set, the
\* slot manager begun.
SetupGate ==
  [f \in GateFields |->
     [GateController_begin(GateController @@ [fired |-> <<>>, clock |-> 0, cmds |-> <<>>])
        EXCEPT !.eventCallback = TRUE][f]]

\* A fresh card at the entrance while it waits for one: authorize, allocate,
\* feed the result back; an empty answer of the allocator is "parking full".
\* e is the entrance's call in progress, S the slot manager.
scanAtEntrance(e, S, cardUID) ==
  LET authorized == isAuthorized(DefaultCards, cardUID)
      r == IF authorized THEN allocateSlot(S, cardUID, 0, e.clock)
           ELSE [mgr |-> S, value |-> -1]
      parkingFull == authorized /\ r.value = -1
  IN [m |-> handleCardScanned(e, cardUID, authorized, r.value, parkingFull),
      slotNumber |-> r.value, authorized |-> authorized, parkingFull |-> parkingFull,
      mgr |-> r.mgr]

\* A fresh card at the exit while it waits for one: authorize, release the
\* card's slot, feed the result back.
scanAtExit(x, S, cardUID) ==
  LET authorized == isAuthorized(DefaultCards, cardUID)
      r == IF authorized THEN releaseSlotByCard(S, cardUID, x.clock)
           ELSE [slotNumber |-> -1, mgr |-> S, value |-> 0]
  IN [m |-> handleCardScanned(x, cardUID, authorized, r.slotNumber, FALSE),
      slotNumber |-> r.slotNumber, mgr |-> r.mgr, value |-> r.value]

\* The end of a pass: e1 is the entrance after its update, in and out what
\* serving the entrance and the exit left.
LoopReturns(e1, in, out, call, irExit) ==
  /\ gate' = [g \in Gates |->
                [f \in GateFields |-> IF g = "ENTRANCE" THEN in.m[f] ELSE out.m[f]]]
  /\ slotMgr' = out.mgr
  /\ now' = out.m.clock
  /\ fired' = [g \in Gates |-> IF g = "ENTRANCE" THEN in.m.fired ELSE out.m.fired]
  /\ servoCmds' = [g \in Gates |-> IF g = "ENTRANCE" THEN in.m.cmds ELSE out.m.cmds]
  /\ op' = [call EXCEPT
              !.gate = "ENTRANCE",
              !.authorized = in.authorized,
              !.slotNumber = in.slotNumber,
              !.parkingFull = in.parkingFull,
              !.pre = [f \in GateFields |-> e1[f]],
              !.preSlot = IF call.cardUID # NoCard
                          THEN findSlotByCard(slotMgr, call.cardUID) ELSE 0,
              !.preAvailable = getAvailableSlots(slotMgr)]
  /\ ret' = [slotNumber |-> out.slotNumber, value |-> out.value]
  /\ sensed' = [g \in Gates |-> IF g = "ENTRANCE" THEN call.vehicleDetected ELSE irExit]
  /\ UNCHANGED <<rfidMgr, eeprom, cardOp, netMgr, wifi, netOp>>

\* The values the unassigned eventData.slotNumber of update() may hold on a
\* pass: they show only when one of the two update() calls fires an event.
JunkOfPass(irEntrance, irExit) ==
  IF /\ update(Enter("ENTRANCE"), irEntrance, 0).fired = <<>>
     /\ update(Enter("EXIT"), irExit, 0).fired = <<>>
  THEN {0} ELSE UninitInt

\* A reader is polled for a gate that waits for a card.
Poll(m, reads) == IF m.state = STATE_WAITING_CARD THEN reads ELSE {NoCard}

\* One pass of the loop: update both gates, then serve the entrance, then
\* the exit.  millis() runs on through the pass.
LoopTick(limit) ==
  \E irEntrance \in BOOLEAN, irExit \in BOOLEAN :
    \E junk \in JunkOfPass(irEntrance, irExit) :
      \E e1 \in {update(Enter("ENTRANCE"), irEntrance, junk)},
         x1 \in {update(Enter("EXIT"), irExit, junk)} :
        \E cardEntrance \in Poll(e1, EntranceReads(slotMgr)), cardExit \in Poll(x1, ExitReads) :
          \E in \in {IF cardEntrance # NoCard
                     THEN scanAtEntrance(e1, slotMgr, cardEntrance)
                     ELSE [m |-> e1, slotNumber |-> 0, authorized |-> FALSE,
                           parkingFull |-> FALSE, mgr |-> slotMgr]} :
            \E out \in {IF cardExit # NoCard
                        THEN scanAtExit([x1 EXCEPT !.clock = in.m.clock], in.mgr, cardExit)
                        ELSE [m |-> [x1 EXCEPT !.clock = in.m.clock], slotNumber |-> 0,
                              mgr |-> in.mgr, value |-> 0]} :
              /\ out.m.clock <= limit
              /\ LoopReturns(e1, in, out,
                             [NoCall EXCEPT !.name = "loop",
                                            !.cardUID = cardEntrance,
                                            !.vehicleDetected = irEntrance],
                             irExit)

---------------------------------------------------------------------------
(* Specifications *)

Init ==
  /\ gate = [g \in Gates |-> GateController]
  /\ slotMgr \in SlotManager
  /\ now = 0
  /\ op = NoCall
  /\ ret = NoReturn
  /\ fired = Silent
  /\ servoCmds = Silent
  /\ sensed = [g \in Gates |-> FALSE]
  /\ rfidMgr = RFIDManager
  /\ eeprom = [data |-> ErasedSnapshot, flash |-> ErasedSnapshot]
  /\ cardOp = NoCardCall
  /\ netMgr = NetworkManager
  /\ wifi = FALSE
  /\ netOp = NoNetCall

\* One GateController object and the clock: every public call, with every
\* argument.  The class keeps no state outside its objects, so the calls are
\* made on one of them.
GateNext ==
  \/ GateBegin("ENTRANCE")
  \/ SetEventCallback("ENTRANCE")
  \/ Update("ENTRANCE")
  \/ HandleCardScanned("ENTRANCE", MaxGateSteps * ClockStep)
  \/ OpenGate("ENTRANCE")
  \/ CloseGate("ENTRANCE")
  \/ Reset("ENTRANCE")
  \/ Elapse(MaxGateSteps * ClockStep)

SpecGate == Init /\ [][GateNext]_vars

\* The SlotManager object and the clock: every public call that changes it,
\* with every argument.
SlotNext ==
  \/ SlotBegin
  \/ AllocateSlot
  \/ ReleaseSlot
  \/ ReleaseSlotByCard
  \/ ClearAllSlots
  \/ Elapse(MaxSlotSteps * ClockStep)

SpecSlots == Init /\ [][SlotNext]_vars

\* The state after setup().
LoopInit ==
  /\ gate = [g \in Gates |-> SetupGate]
  /\ slotMgr = SlotManager_begin(CHOOSE S \in SlotManager : TRUE)
  /\ now = 0
  /\ op = NoCall
  /\ ret = NoReturn
  /\ fired = Silent
  /\ servoCmds = Silent
  /\ sensed = [g \in Gates |-> FALSE]
  /\ rfidMgr = RFIDManager
  /\ eeprom = [data |-> ErasedSnapshot, flash |-> ErasedSnapshot]
  /\ cardOp = NoCardCall
  /\ netMgr = NetworkManager
  /\ wifi = FALSE
  /\ netOp = NoNetCall

\* The firmware as it runs: passes of the loop, and time between them.
LoopNext ==
  \/ LoopTick(MaxLoopSteps * ClockStep)
  \/ Elapse(MaxLoopSteps * ClockStep)

SpecLoop == LoopInit /\ [][LoopNext]_vars

\* One gate after setup(), ticked: update() with every reading, scan
\* results, and the clock.  The loop calls update() on every pass and
\* millis() runs on: an update() that would change the gate is not put off
\* for ever, and neither is the clock, up to the horizon.
TickInit ==
  /\ gate = [g \in Gates |-> SetupGate]
  /\ slotMgr = CHOOSE S \in SlotManager : TRUE
  /\ now = 0
  /\ op = NoCall
  /\ ret = NoReturn
  /\ fired = Silent
  /\ servoCmds = Silent
  /\ sensed = [g \in Gates |-> FALSE]
  /\ rfidMgr = RFIDManager
  /\ eeprom = [data |-> ErasedSnapshot, flash |-> ErasedSnapshot]
  /\ cardOp = NoCardCall
  /\ netMgr = NetworkManager
  /\ wifi = FALSE
  /\ netOp = NoNetCall

TickLimit == MaxTickSteps * ClockStep

TickNext ==
  \/ Update("ENTRANCE")
  \/ HandleCardScanned("ENTRANCE", TickLimit)
  \/ Elapse(TickLimit)

SpecTicks ==
  /\ TickInit
  /\ [][TickNext]_vars
  /\ WF_vars(Update("ENTRANCE"))
  /\ WF_vars(Elapse(TickLimit))

\* The same gate and calls, with setup() run TickLimit ms before millis()
\* wraps: a value below 0 reads as that value plus 2^32.
WrapStart == ULongSub(0, TickLimit)

WrapInit ==
  /\ gate = [g \in Gates |-> [SetupGate EXCEPT !.stateStartTime = WrapStart]]
  /\ slotMgr = CHOOSE S \in SlotManager : TRUE
  /\ now = WrapStart
  /\ op = NoCall
  /\ ret = NoReturn
  /\ fired = Silent
  /\ servoCmds = Silent
  /\ sensed = [g \in Gates |-> FALSE]
  /\ rfidMgr = RFIDManager
  /\ eeprom = [data |-> ErasedSnapshot, flash |-> ErasedSnapshot]
  /\ cardOp = NoCardCall
  /\ netMgr = NetworkManager
  /\ wifi = FALSE
  /\ netOp = NoNetCall

SpecWrap == WrapInit /\ [][TickNext]_vars

\* The NetworkManager, the link and the clock: begin(), then update() and
\* setAutoReconnect() at any time, while the link comes and goes.
NetLimit == MaxNetSteps * ClockStep

NetNext ==
  \/ NetBegin(NetLimit)
  \/ NetUpdate(NetLimit)
  \/ SetAutoReconnect
  \/ LinkChanges
  \/ Elapse(NetLimit)

\* The objects as their constructors leave them, the link down.
NetInit ==
  /\ gate = [g \in Gates |-> GateController]
  /\ slotMgr = CHOOSE S \in SlotManager : TRUE
  /\ now = 0
  /\ op = NoCall
  /\ ret = NoReturn
  /\ fired = Silent
  /\ servoCmds = Silent
  /\ sensed = [g \in Gates |-> FALSE]
  /\ rfidMgr = RFIDManager
  /\ eeprom = [data |-> ErasedSnapshot, flash |-> ErasedSnapshot]
  /\ cardOp = NoCardCall
  /\ netMgr = NetworkManager
  /\ wifi = FALSE
  /\ netOp = NoNetCall

SpecNet == NetInit /\ [][NetNext]_vars

\* The RFIDManager on its own, from the first boot on, over every content of
\* the flash in StoredSnapshots.
CardInit ==
  /\ gate = [g \in Gates |-> GateController]
  /\ slotMgr = CHOOSE S \in SlotManager : TRUE
  /\ now = 0
  /\ op = NoCall
  /\ ret = NoReturn
  /\ fired = Silent
  /\ servoCmds = Silent
  /\ sensed = [g \in Gates |-> FALSE]
  /\ rfidMgr = RFIDManager
  /\ eeprom \in {[data |-> stored, flash |-> stored] : stored \in StoredSnapshots}
  /\ cardOp = NoCardCall
  /\ netMgr = NetworkManager
  /\ wifi = FALSE
  /\ netOp = NoNetCall

CardNext ==
  \/ RfidBegin
  \/ IsAuthorized
  \/ AddCard
  \/ RemoveCard
  \/ UpdateCard
  \/ ClearAllCards
  \/ ResetToDefaults
  \/ Restart

SpecCards == CardInit /\ [][CardNext]_vars


---------------------------------------------------------------------------
(* Claims about the SlotManager, checked under SpecSlots *)

Occupied(S) == {i \in SlotIndex : S.slots[i].occupied}

Holders(S) == {S.slots[i].cardUID : i \in Occupied(S)}

\* The call that made this step was allocateSlot on a begun manager.
AllocateStep == op'.name = "allocateSlot" /\ slotMgr.initialized

C4_CounterMatchesInventory ==
  slotMgr.initialized =>
    /\ getAvailableSlots(slotMgr) = Cardinality(SlotIndex \ Occupied(slotMgr))
    /\ getAvailableSlots(slotMgr) + Cardinality(Occupied(slotMgr)) = TOTAL_SLOTS
    /\ getAvailableSlots(slotMgr) >= 0
    /\ getAvailableSlots(slotMgr) <= TOTAL_SLOTS

\* A release that failed (the slot was free or no slot at all) while slots are
\* occupied, and a repeated allocation, have been answered.
C4_Witness ==
  /\ slotMgr.initialized
  /\ op.name = "releaseSlot"
  /\ ret.value = 0
  /\ op.preAvailable < TOTAL_SLOTS
  /\ op.preAvailable > 0

C7_CapacityBoundary ==
  /\ [](slotMgr.initialized /\ Cardinality(Holders(slotMgr)) = TOTAL_SLOTS =>
          Occupied(slotMgr) = SlotIndex /\ getAvailableSlots(slotMgr) = 0)
  /\ [][(AllocateStep /\ Cardinality(Holders(slotMgr)) = TOTAL_SLOTS
                      /\ op'.cardUID \notin Holders(slotMgr)) =>
          (ret'.value = -1 /\ slotMgr' = slotMgr)]_vars

\* The inventory was filled by TOTAL_SLOTS cards and one more card was refused.
C7_Witness ==
  /\ op.name = "allocateSlot"
  /\ op.preSlot = -1
  /\ op.preAvailable = 0
  /\ ret.value = -1
  /\ Cardinality(Holders(slotMgr)) = TOTAL_SLOTS

---------------------------------------------------------------------------
(* Claims about the GateController, checked under SpecGate *)

\* The edges of the transition table.
TableEdges ==
  { <<STATE_IDLE, STATE_WAITING_CARD>>,
    <<STATE_WAITING_CARD, STATE_IDLE>>,
    <<STATE_WAITING_CARD, STATE_BARRIER_OPEN>>,
    <<STATE_BARRIER_OPEN, STATE_CLOSING_DELAY>>,
    <<STATE_CLOSING_DELAY, STATE_IDLE>> }

\* The last call was handleCardScanned on gate g.
ScanDelivered(g) == op.name = "handleCardScanned" /\ op.gate = g

\* C1: the state of a gate is always one of the four, and every change of
\* state that update() or handleCardScanned() makes is an edge of the table.
C1_OnlyTableEdges ==
  /\ [](\A g \in Gates : gate[g].state \in GateState)
  /\ [][\A g \in Gates :
          (op'.name \in {"update", "handleCardScanned"} /\ gate'[g].state # gate[g].state)
            => <<gate[g].state, gate'[g].state>> \in TableEdges]_vars

\* A gate that a card scan opened has come back to Idle through ClosingDelay.
C1_Witness ==
  \E g \in Gates :
    /\ op.name = "update"
    /\ op.gate = g
    /\ op.pre.state = STATE_CLOSING_DELAY
    /\ gate[g].state = STATE_IDLE
    /\ gate[g].lastScannedCard # ""

\* C2: handleCardScanned on a gate that is not in WaitingCard changes nothing
\* of the gate (state, state-entry time, servo position, last scanned card),
\* fires no event and writes nothing to the servo, whatever its arguments.
C2_StaleScanIgnored ==
  \A g \in Gates :
    (ScanDelivered(g) /\ op.pre.state # STATE_WAITING_CARD) =>
      /\ gate[g].state = op.pre.state
      /\ gate[g].stateStartTime = op.pre.stateStartTime
      /\ gate[g].servo = op.pre.servo
      /\ gate[g].lastScannedCard = op.pre.lastScannedCard
      /\ gate[g] = op.pre
      /\ fired[g] = <<>>
      /\ servoCmds[g] = <<>>

\* An authorized scan result with a slot was handed to a gate whose barrier
\* had been closed again after an earlier scan.
C2_Witness ==
  \E g \in Gates :
    /\ ScanDelivered(g)
    /\ op.pre.state = STATE_IDLE
    /\ op.pre.servo = SERVO_CLOSED_ANGLE
    /\ op.pre.lastScannedCard # ""
    /\ op.authorized
    /\ op.slotNumber >= 1
    /\ ~op.parkingFull

\* C8: in WaitingCard, an authorized scan result with a granted slot (the
\* allocator was not full) leaves the gate in BarrierOpen with the servo
\* written to the open angle, and fires one event: CardScanned with the
\* card's UID and the slot number.
C8_GrantOpens ==
  \A g \in Gates :
    (/\ ScanDelivered(g)
     /\ op.pre.state = STATE_WAITING_CARD
     /\ op.authorized
     /\ ~op.parkingFull
     /\ op.slotNumber >= 1) =>
      /\ gate[g].state = STATE_BARRIER_OPEN
      /\ gate[g].servo = SERVO_OPEN_ANGLE
      /\ servoCmds[g] = <<SERVO_OPEN_ANGLE>>
      /\ Len(fired[g]) = 1
      /\ fired[g][1].event = EVENT_CARD_SCANNED
      /\ fired[g][1].cardUID = op.cardUID
      /\ fired[g][1].slotNumber = op.slotNumber
      /\ op.pre.eventCallback => fired[g][1].delivered

\* A begun gate with a callback was opened by a scan for the last slot.
C8_Witness ==
  \E g \in Gates :
    /\ ScanDelivered(g)
    /\ op.pre.state = STATE_WAITING_CARD
    /\ op.pre.eventCallback
    /\ op.authorized
    /\ ~op.parkingFull
    /\ op.slotNumber = TOTAL_SLOTS
    /\ gate[g].state = STATE_BARRIER_OPEN

\* The servo was not written to the open angle by the last call on g.
NotOpened(g) == \A k \in 1..Len(servoCmds[g]) : servoCmds[g][k] # SERVO_OPEN_ANGLE

\* The last call on g ended in Idle with one ParkingFull event and without
\* opening.
RefusedAsFull(g) ==
  /\ gate[g].state = STATE_IDLE
  /\ Len(fired[g]) = 1
  /\ fired[g][1].event = EVENT_PARKING_FULL
  /\ gate[g].eventCallback => fired[g][1].delivered
  /\ NotOpened(g)

\* C9 as claimed: an authorized scan result in WaitingCard whose parkingFull
\* flag is set or whose slot number is -1 is refused as full.
C9_Claimed ==
  \A g \in Gates :
    (/\ ScanDelivered(g)
     /\ op.pre.state = STATE_WAITING_CARD
     /\ op.authorized
     /\ (op.parkingFull \/ op.slotNumber = -1)) => RefusedAsFull(g)

\* C9 as amended: an authorized scan result in WaitingCard is refused as full
\* when its parkingFull flag is set, for every slot number, and opens the
\* barrier when the flag is not set, for every slot number, -1 included.
C9_FlagDecides ==
  \A g \in Gates :
    (ScanDelivered(g) /\ op.pre.state = STATE_WAITING_CARD /\ op.authorized) =>
      /\ op.parkingFull => RefusedAsFull(g)
      /\ ~op.parkingFull => (gate[g].state = STATE_BARRIER_OPEN /\ ~NotOpened(g))

\* Both halves have happened: this state is the refusal of a scan that
\* carried a slot number together with the flag.
C9_Witness ==
  \E g \in Gates :
    /\ ScanDelivered(g)
    /\ op.pre.state = STATE_WAITING_CARD
    /\ op.authorized
    /\ op.parkingFull
    /\ op.slotNumber >= 1
    /\ gate[g].state = STATE_IDLE

---------------------------------------------------------------------------
(* Claims about the gates in the main loop, checked under SpecLoop *)

\* This step is a pass of the loop that served a card at the entrance, which
\* was waiting for one.
EntranceServed ==
  /\ op'.name = "loop"
  /\ op'.cardUID # NoCard
  /\ op'.pre.state = STATE_WAITING_CARD

\* The events of kind e among the entrance's events of the last step.
EntranceEvents(e) ==
  {k \in 1..Len(fired["ENTRANCE"]) : fired["ENTRANCE"][k].event = e}

\* The pass ended with the entrance in Idle, one ParkingFull event handed to
\* the callback, no CardScanned event, and the servo not written open.
EntranceRefusedAsFull ==
  /\ gate["ENTRANCE"].state = STATE_IDLE
  /\ Cardinality(EntranceEvents(EVENT_PARKING_FULL)) = 1
  /\ \A k \in EntranceEvents(EVENT_PARKING_FULL) : fired["ENTRANCE"][k].delivered
  /\ EntranceEvents(EVENT_CARD_SCANNED) = {}
  /\ NotOpened("ENTRANCE")

\* Serving the entrance changed nothing of the inventory: over the pass, the
\* only slot that differs is the one the exit released, and the counter went
\* up by that one.
EntranceKeptInventory ==
  LET released == ret'.slotNumber >= 1
  IN /\ \A i \in SlotIndex :
          (~released \/ slotMgr.slots[i].slotNumber # ret'.slotNumber)
            => slotMgr'.slots[i] = slotMgr.slots[i]
     /\ getAvailableSlots(slotMgr') =
          getAvailableSlots(slotMgr) + (IF released THEN 1 ELSE 0)

\* C10 as claimed: with no free slot, every authorized card served at the
\* entrance in WaitingCard is refused as full and the inventory is kept.
C10_Claimed ==
  [][(EntranceServed /\ op'.authorized /\ getAvailableSlots(slotMgr) = 0)
       => (EntranceRefusedAsFull' /\ EntranceKeptInventory)]_vars

\* C10 as amended: with no free slot, an authorized card that holds no slot,
\* served at the entrance in WaitingCard, is refused as full: Idle, one
\* ParkingFull, the servo not written open; an authorized card that holds a
\* slot is let in on that slot.  In both cases the inventory is kept.
C10_FullLotRefusesNewCard ==
  [][(EntranceServed /\ op'.authorized /\ getAvailableSlots(slotMgr) = 0) =>
       /\ EntranceKeptInventory
       /\ findSlotByCard(slotMgr, op'.cardUID) = -1 => EntranceRefusedAsFull'
       /\ findSlotByCard(slotMgr, op'.cardUID) # -1 =>
            /\ gate'["ENTRANCE"].state = STATE_BARRIER_OPEN
            /\ op'.slotNumber = findSlotByCard(slotMgr, op'.cardUID)]_vars

\* A whitelisted card without a slot has been served at the entrance of the
\* full lot and refused.
C10_Witness ==
  /\ op.name = "loop"
  /\ op.cardUID # NoCard
  /\ op.pre.state = STATE_WAITING_CARD
  /\ op.authorized
  /\ op.preAvailable = 0
  /\ op.preSlot = -1
  /\ op.parkingFull
  /\ gate["ENTRANCE"].state = STATE_IDLE
  /\ Cardinality(Occupied(slotMgr)) = TOTAL_SLOTS

---------------------------------------------------------------------------
(* Claims about the scan results and the ticks of a gate, checked under
   SpecGate *)

\* C11: in WaitingCard, a scan result with authorized = false leaves the gate
\* in Idle, fires one event, CardDenied with the card's UID, and writes
\* nothing to the servo, whatever slotNumber and parkingFull are.
C11_DeniedGoesIdle ==
  \A g \in Gates :
    (ScanDelivered(g) /\ op.pre.state = STATE_WAITING_CARD /\ ~op.authorized) =>
      /\ gate[g].state = STATE_IDLE
      /\ Len(fired[g]) = 1
      /\ fired[g][1].event = EVENT_CARD_DENIED
      /\ fired[g][1].cardUID = op.cardUID
      /\ op.pre.eventCallback => fired[g][1].delivered
      /\ servoCmds[g] = <<>>
      /\ gate[g].servo = op.pre.servo

\* A card was denied although the result carried a slot number and the
\* parkingFull flag.
C11_Witness ==
  \E g \in Gates :
    /\ ScanDelivered(g)
    /\ op.pre.state = STATE_WAITING_CARD
    /\ op.pre.eventCallback
    /\ ~op.authorized
    /\ op.parkingFull
    /\ op.slotNumber >= 1
    /\ gate[g].state = STATE_IDLE

\* This step is a call of update() on gate g.
UpdateStep(g) == op'.name = "update" /\ op'.gate = g

\* The events of kind e that the last call on g fired.
EventsOf(g, e) == {k \in 1..Len(fired[g]) : fired[g][k].event = e}

\* C12: update() on a begun gate in Idle goes to WaitingCard and fires one
\* event, VehicleDetected, when it reads "present" and the reading before was
\* "absent" (or there was none), and only then: on every other call in Idle
\* the gate stays in Idle and nothing is fired, and no call on a gate in
\* another state fires VehicleDetected.
C12_DetectedOnRisingEdge ==
  /\ [][\A g \in Gates :
          (UpdateStep(g) /\ gate[g].state = STATE_IDLE) =>
            IF gate[g].initialized /\ op'.vehicleDetected /\ ~sensed[g]
            THEN /\ gate'[g].state = STATE_WAITING_CARD
                 /\ Len(fired'[g]) = 1
                 /\ fired'[g][1].event = EVENT_VEHICLE_DETECTED
            ELSE /\ gate'[g].state = STATE_IDLE
                 /\ fired'[g] = <<>>]_vars
  /\ [](\A g \in Gates :
          EventsOf(g, EVENT_VEHICLE_DETECTED) # {} =>
            (op.name = "update" /\ op.gate = g /\ op.pre.state = STATE_IDLE))

\* A vehicle stands at a gate that went back to Idle after a card was
\* scanned there: update() has read "present" again and the gate is still
\* in Idle.
C12_Witness ==
  \E g \in Gates :
    /\ op.name = "update"
    /\ op.gate = g
    /\ op.pre.state = STATE_IDLE
    /\ op.pre.initialized
    /\ op.pre.lastScannedCard # ""
    /\ op.pre.vehicleWasDetected
    /\ op.vehicleDetected
    /\ gate[g].state = STATE_IDLE

\* C13: update() on a gate in WaitingCard that reads "absent" after "present"
\* goes to Idle and fires one event, VehicleLeft (no Timeout, however long
\* the gate has waited); the slot inventory and the servo are not touched.
C13_LeftBeforeScan ==
  [][\A g \in Gates :
       (UpdateStep(g) /\ gate[g].state = STATE_WAITING_CARD
          /\ sensed[g] /\ ~op'.vehicleDetected) =>
         /\ gate'[g].state = STATE_IDLE
         /\ Len(fired'[g]) = 1
         /\ fired'[g][1].event = EVENT_VEHICLE_LEFT
         /\ servoCmds'[g] = <<>>
         /\ slotMgr' = slotMgr]_vars

\* The vehicle left a gate that had waited for a card for longer than the
\* scan timeout.
C13_Witness ==
  \E g \in Gates :
    /\ op.name = "update"
    /\ op.gate = g
    /\ op.pre.state = STATE_WAITING_CARD
    /\ ~op.vehicleDetected
    /\ ULongLess(CARD_SCAN_TIMEOUT, ULongSub(now, op.pre.stateStartTime))
    /\ gate[g].state = STATE_IDLE
    /\ EventsOf(g, EVENT_VEHICLE_LEFT) # {}

\* The time gate g has been in its state, as update() computes it at the
\* start of this step.
ElapsedInState(g) == ULongSub(now, gate[g].stateStartTime)

\* C14 as claimed, for a vehicle that stays: update() on a gate in WaitingCard
\* that has been there for CARD_SCAN_TIMEOUT ms or longer goes to Idle and
\* fires Timeout, and below that the gate stays in WaitingCard.
C14_Claimed ==
  [][\A g \in Gates :
       (UpdateStep(g) /\ gate[g].state = STATE_WAITING_CARD /\ op'.vehicleDetected) =>
         IF ~ULongLess(ElapsedInState(g), CARD_SCAN_TIMEOUT)
         THEN /\ gate'[g].state = STATE_IDLE
              /\ Len(fired'[g]) = 1
              /\ fired'[g][1].event = EVENT_TIMEOUT
         ELSE /\ gate'[g].state = STATE_WAITING_CARD
              /\ fired'[g] = <<>>]_vars

\* update() has run on a gate that had been in WaitingCard for exactly
\* CARD_SCAN_TIMEOUT ms, the vehicle still there, and the gate is still in
\* WaitingCard.
C14_Witness ==
  \E g \in Gates :
    /\ op.name = "update"
    /\ op.gate = g
    /\ op.pre.state = STATE_WAITING_CARD
    /\ op.vehicleDetected
    /\ ULongSub(now, op.pre.stateStartTime) = CARD_SCAN_TIMEOUT
    /\ gate[g].state = STATE_WAITING_CARD
    /\ fired[g] = <<>>

\* C15: on a begun gate, update() in BarrierOpen that reads "absent" after
\* "present" goes to ClosingDelay and fires one event, VehiclePassed, without
\* writing to the servo; update() in ClosingDelay writes the closed angle to
\* the servo once and goes to Idle when GATE_CLOSE_DELAY ms or more have
\* passed there, and does nothing before; update() in Idle never writes to
\* the servo.
C15_PassThenCloseOnce ==
  [][\A g \in Gates :
       (UpdateStep(g) /\ gate[g].initialized) =>
         /\ (gate[g].state = STATE_BARRIER_OPEN /\ sensed[g] /\ ~op'.vehicleDetected) =>
              /\ gate'[g].state = STATE_CLOSING_DELAY
              /\ Len(fired'[g]) = 1
              /\ fired'[g][1].event = EVENT_VEHICLE_PASSED
              /\ servoCmds'[g] = <<>>
         /\ gate[g].state = STATE_CLOSING_DELAY =>
              IF ~ULongLess(ElapsedInState(g), GATE_CLOSE_DELAY)
              THEN /\ gate'[g].state = STATE_IDLE
                   /\ servoCmds'[g] = <<SERVO_CLOSED_ANGLE>>
                   /\ gate'[g].servo = SERVO_CLOSED_ANGLE
                   /\ fired'[g] = <<>>
              ELSE /\ gate'[g].state = STATE_CLOSING_DELAY
                   /\ servoCmds'[g] = <<>>
                   /\ gate'[g].servo = gate[g].servo
         /\ gate[g].state = STATE_IDLE => servoCmds'[g] = <<>>]_vars

\* The barrier a card had opened was closed by the update() that came
\* exactly GATE_CLOSE_DELAY ms after the vehicle had passed.
C15_Witness ==
  \E g \in Gates :
    /\ op.name = "update"
    /\ op.gate = g
    /\ op.pre.state = STATE_CLOSING_DELAY
    /\ op.pre.lastScannedCard # ""
    /\ op.pre.servo = SERVO_OPEN_ANGLE
    /\ ULongSub(now, op.pre.stateStartTime) = GATE_CLOSE_DELAY
    /\ gate[g].state = STATE_IDLE
    /\ servoCmds[g] = <<SERVO_CLOSED_ANGLE>>

\* C16: a call of update() and a call of handleCardScanned() fire at most
\* one event each.
C16_AtMostOneEvent ==
  \A g \in Gates :
    op.name \in {"update", "handleCardScanned"} => Len(fired[g]) <= 1

\* update() found the scan timeout passed and the vehicle gone on the same
\* call, and fired one event.
C16_Witness ==
  \E g \in Gates :
    /\ op.name = "update"
    /\ op.gate = g
    /\ op.pre.state = STATE_WAITING_CARD
    /\ op.pre.vehicleWasDetected
    /\ ~op.vehicleDetected
    /\ ULongLess(CARD_SCAN_TIMEOUT, ULongSub(now, op.pre.stateStartTime))
    /\ Len(fired[g]) = 1

\* C17: openGate() leaves the gate in BarrierOpen with the open angle written
\* to the servo, and reset() leaves it in Idle with the closed angle written,
\* from whatever state and with whatever time passed in it; neither call
\* takes time.
C17_OverrideInEveryState ==
  [][\A g \in Gates :
       /\ (op'.name = "openGate" /\ op'.gate = g) =>
            /\ gate'[g].state = STATE_BARRIER_OPEN
            /\ gate'[g].servo = SERVO_OPEN_ANGLE
            /\ servoCmds'[g] = <<SERVO_OPEN_ANGLE>>
            /\ gate'[g].stateStartTime = now
            /\ now' = now
       /\ (op'.name = "reset" /\ op'.gate = g) =>
            /\ gate'[g].state = STATE_IDLE
            /\ gate'[g].servo = SERVO_CLOSED_ANGLE
            /\ servoCmds'[g] = <<SERVO_CLOSED_ANGLE>>
            /\ gate'[g].stateStartTime = now
            /\ now' = now]_vars

\* reset() was called on a gate that waited for a card, its scan timeout
\* running.
C17_Witness ==
  \E g \in Gates :
    /\ op.name = "reset"
    /\ op.gate = g
    /\ op.pre.state = STATE_WAITING_CARD
    /\ op.pre.initialized
    /\ ULongLess(0, ULongSub(now, op.pre.stateStartTime))
    /\ gate[g].state = STATE_IDLE
    /\ gate[g].servo = SERVO_CLOSED_ANGLE

C19_Claimed ==
  \A g \in Gates :
    gate[g].initialized => (isOpen(gate[g]) <=> gate[g].servo = SERVO_OPEN_ANGLE)

\* closeGate() was called on a begun gate in BarrierOpen: the servo is at the
\* closed angle and the gate is in BarrierOpen still.
C19_Witness ==
  \E g \in Gates :
    /\ op.name = "closeGate"
    /\ op.gate = g
    /\ op.pre.initialized
    /\ op.pre.state = STATE_BARRIER_OPEN
    /\ gate[g].servo = SERVO_CLOSED_ANGLE
    /\ isOpen(gate[g])

-----------------------------------------------------------------------------
\* Claims about allocateSlot() followed by releaseSlot(), checked under
\* SpecSlots.

\* The inventory can take the card: it is initialized, the card holds no
\* slot and a slot is free.
CanTake(S, cardUID) ==
  /\ S.initialized
  /\ findSlotByCard(S, cardUID) = -1
  /\ findAvailableSlot(S) # -1

\* C20: in every inventory the program reaches, for a card that holds no
\* slot while a slot is free, releaseSlot() of the slot that allocateSlot()
\* returned gives back the inventory of before the two calls (the count of
\* free slots and every slot's occupied flag, holder and entry time) and
\* the card maps to no slot; the allocateSlot() between had taken a slot.
C20_ReleaseUndoesAllocate ==
  \A cardUID \in SlotUIDs, entryTime \in {0, ULongSeconds(now)} :
    CanTake(slotMgr, cardUID) =>
      LET a == allocateSlot(slotMgr, cardUID, entryTime, now)
          r == releaseSlot(a.mgr, a.value, ULongAdd(now, ClockStep))
      IN /\ isValidSlotNumber(a.value)
         /\ findSlotByCard(a.mgr, cardUID) = a.value
         /\ getAvailableSlots(a.mgr) = getAvailableSlots(slotMgr) - 1
         /\ r.mgr = slotMgr
         /\ findSlotByCard(r.mgr, cardUID) = -1

\* releaseSlot() has freed a slot after a stay of more than 0 seconds,
\* another card still holds a slot, and the inventory can take a card again.
C20_Witness ==
  /\ op.name = "releaseSlot"
  /\ slotMgr.availableSlots = op.preAvailable + 1
  /\ ret.value > 0
  /\ Holders(slotMgr) # {}
  /\ \E cardUID \in SlotUIDs : CanTake(slotMgr, cardUID)

\* The slot of that number after releaseSlot(): free, no holder, no entry
\* time.
Freed(S, slotNumber) ==
  [S EXCEPT !.slots[slotNumberToIndex(slotNumber)].occupied = FALSE,
            !.slots[slotNumberToIndex(slotNumber)].cardUID = "",
            !.slots[slotNumberToIndex(slotNumber)].entryTime = 0,
            !.availableSlots = @ + 1]

\* C21: releaseSlot(n) with n outside 1..TOTAL_SLOTS, or of a slot that is
\* not occupied, returns 0 and leaves the inventory as it was; releasing an
\* occupied slot twice counts it free once, the second call returning 0; and
\* the count of free slots is never above TOTAL_SLOTS.
C21_ReleaseOfFreeSlotIsNoOp ==
  /\ [][(op'.name = "releaseSlot"
           /\ (~isValidSlotNumber(op'.slotNumber)
                 \/ ~slotMgr.slots[slotNumberToIndex(op'.slotNumber)].occupied)) =>
          (ret'.value = 0 /\ slotMgr' = slotMgr)]_vars
  /\ [](\A slotNumber \in 1..TOTAL_SLOTS :
          (slotMgr.initialized /\ slotMgr.slots[slotNumberToIndex(slotNumber)].occupied) =>
            LET once == releaseSlot(slotMgr, slotNumber, now)
                twice == releaseSlot(once.mgr, slotNumber, now)
            IN /\ getAvailableSlots(once.mgr) = getAvailableSlots(slotMgr) + 1
               /\ twice.mgr = once.mgr
               /\ twice.value = 0)
  /\ [](getAvailableSlots(slotMgr) <= TOTAL_SLOTS)

\* releaseSlot() was called for a slot that was free while other slots were
\* occupied: it returned 0 and the count of free slots is the one of before.
C21_Witness ==
  /\ op.name = "releaseSlot"
  /\ slotMgr.initialized
  /\ isValidSlotNumber(op.slotNumber)
  /\ ~slotMgr.slots[slotNumberToIndex(op.slotNumber)].occupied
  /\ ret.value = 0
  /\ getAvailableSlots(slotMgr) = op.preAvailable
  /\ getAvailableSlots(slotMgr) = 1

\* C22: on an inventory after begin(), releaseSlotByCard(uid) frees the slot
\* whose holder is uid, and only that slot, and reports its number; when no
\* occupied slot is held by uid it reports slot -1, returns 0 and leaves the
\* inventory as it was.
C22_ReleaseByCardFreesTheHolder ==
  [][(op'.name = "releaseSlotByCard" /\ slotMgr.initialized) =>
       LET slotNumber == findSlotByCard(slotMgr, op'.cardUID)
       IN IF slotNumber = -1
          THEN /\ \A i \in Occupied(slotMgr) : slotMgr.slots[i].cardUID # op'.cardUID
               /\ ret'.slotNumber = -1
               /\ ret'.value = 0
               /\ slotMgr' = slotMgr
          ELSE /\ slotMgr.slots[slotNumberToIndex(slotNumber)].occupied
               /\ slotMgr.slots[slotNumberToIndex(slotNumber)].cardUID = op'.cardUID
               /\ ret'.slotNumber = slotNumber
               /\ ret'.value = ULongSub(ULongSeconds(now),
                                        slotMgr.slots[slotNumberToIndex(slotNumber)].entryTime)
               /\ slotMgr' = Freed(slotMgr, slotNumber)]_vars

\* releaseSlotByCard() freed the slot of a card that was not in the first
\* slot, and the cards in the other slots hold them still.
C22_Witness ==
  /\ op.name = "releaseSlotByCard"
  /\ ret.slotNumber = 2
  /\ op.preSlot = 2
  /\ getAvailableSlots(slotMgr) = op.preAvailable + 1
  /\ slotMgr.slots[0].occupied
  /\ ~slotMgr.slots[1].occupied
  /\ findSlotByCard(slotMgr, op.cardUID) = -1

\* Readings of millis() at which a card is given a slot: the first seconds
\* after boot, and one second before the counter wraps at 2^32 ms (after
\* 49.7 days).
AllocateInstants == {0, 999, 1000, ClockStep, ULongSub(0, 1000)}

\* Lengths of a stay, in ms.
StayLengths == {0, 1, 1000, ClockStep, 60000}

\* What releaseSlot() returns for a card that allocateSlot() gave a slot at
\* millis() = t0, when it is called length ms later.
StayReturned(S, cardUID, entryTime, t0, length) ==
  LET a == allocateSlot(S, cardUID, entryTime, t0)
  IN releaseSlot(a.mgr, a.value, ULongAdd(t0, length)).value

\* C23 as claimed: for a slot taken at t0 and released length ms later,
\* releaseSlot() returns the seconds of the stay (the whole seconds of length,
\* or one more when a second of the clock began during the stay), the same
\* with entryTime = 0 and with entryTime given as the clock's second of t0,
\* and no less for a longer stay.
C23_Claimed ==
  \A cardUID \in SlotUIDs, t0 \in AllocateInstants, length \in StayLengths :
    CanTake(slotMgr, cardUID) =>
      LET internal == StayReturned(slotMgr, cardUID, 0, t0, length)
          explicit == StayReturned(slotMgr, cardUID, ULongSeconds(t0), t0, length)
      IN /\ internal \in {length \div 1000, (length \div 1000) + 1}
         /\ explicit = internal
         /\ \A longer \in StayLengths :
              length <= longer =>
                ~ULongLess(StayReturned(slotMgr, cardUID, 0, t0, longer), internal)

\* releaseSlot() returned the seconds of a stay that began at boot.
C23_Witness ==
  /\ op.name = "releaseSlot"
  /\ getAvailableSlots(slotMgr) = op.preAvailable + 1
  /\ now = ClockStep
  /\ ret.value = ULongSeconds(ClockStep)

---------------------------------------------------------------------------
(* Claims about the RFIDManager, checked under SpecCards *)

\* The entries of the array that hold uid, among the first _numCards.
Holding(R, uid) == {i \in CardIndex : i < R.numCards /\ R.authorizedCards[i].uid = uid}

\* A step that is a call of that name on the RFIDManager.
CardStep(name) == cardOp'.name = name

\* C24: isAuthorized(uid) returns true exactly when one of the first
\* _numCards entries holds uid and is active; it returns false when no entry
\* holds uid, and it leaves the whitelist and the EEPROM as they were.
C24_AuthorizedIffActiveRecord ==
  [][CardStep("isAuthorized") =>
       /\ cardOp'.value <=>
            \E i \in Holding(rfidMgr, cardOp'.uid) : rfidMgr.authorizedCards[i].isActive
       /\ Holding(rfidMgr, cardOp'.uid) = {} => ~cardOp'.value
       /\ rfidMgr' = rfidMgr
       /\ eeprom' = eeprom]_vars

\* isAuthorized() returned false for a card that is on the whitelist,
\* switched off, while another card of the whitelist is active.
C24_Witness ==
  /\ cardOp.name = "isAuthorized"
  /\ ~cardOp.value
  /\ cardOp.preIndex # -1
  /\ ~rfidMgr.authorizedCards[cardOp.preIndex].isActive
  /\ isAuthorized(Whitelist(rfidMgr), UnknownUID)

\* C25: addCard() of a UID that an entry of the whitelist holds, or on a
\* whitelist of MAX_RFID_CARDS cards, returns false and leaves the whitelist
\* and the EEPROM (RAM copy and flash) as they were; so do removeCard() and
\* updateCard() of a UID that no entry holds.
C25_RefusedCallsChangeNothing ==
  [][/\ (CardStep("addCard")
           /\ (Holding(rfidMgr, cardOp'.uid) # {}
                 \/ getCardCount(rfidMgr) >= MAX_RFID_CARDS)) =>
          (~cardOp'.value /\ rfidMgr' = rfidMgr /\ eeprom' = eeprom)
     /\ ((CardStep("removeCard") \/ CardStep("updateCard"))
           /\ Holding(rfidMgr, cardOp'.uid) = {}) =>
          (~cardOp'.value /\ rfidMgr' = rfidMgr /\ eeprom' = eeprom)]_vars

\* addCard() of a UID that was not on the whitelist was refused because the
\* whitelist was full, on a call during which the EEPROM would have taken
\* the save.
C25_Witness ==
  /\ cardOp.name = "addCard"
  /\ cardOp.preIndex = -1
  /\ cardOp.preCount = MAX_RFID_CARDS
  /\ cardOp.commits
  /\ ~cardOp.value
  /\ getCardCount(rfidMgr) = MAX_RFID_CARDS
  /\ Holding(rfidMgr, cardOp.uid) = {}

\* The snapshot passes loadFromEEPROM()'s check: the tag, and a count in
\* 0..MAX_RFID_CARDS.
ValidSnapshot(data) ==
  data.magic = EEPROM_MAGIC /\ data.numCards >= 0 /\ data.numCards <= MAX_RFID_CARDS

\* The cards of a snapshot: its first numCards entries, in their order.
StoredCards(data) == [k \in 1..data.numCards |-> data.cards[k - 1]]

\* C26 as claimed: after begin() the whitelist is the stored snapshot when
\* the snapshot has the tag and a count in 0..MAX_RFID_CARDS, and the five
\* default cards when it fails on the tag or on the count.
C26_Claimed ==
  [][CardStep("RFIDManager::begin") =>
       IF ValidSnapshot(eeprom.flash)
       THEN Whitelist(rfidMgr') = StoredCards(eeprom.flash)
       ELSE Whitelist(rfidMgr') = DefaultCards]_vars

\* begin() found a snapshot with the tag and a count above MAX_RFID_CARDS:
\* it returned false and the whitelist is empty.
C26_Witness ==
  /\ cardOp.name = "RFIDManager::begin"
  /\ eeprom.flash.magic = EEPROM_MAGIC
  /\ eeprom.flash.numCards > MAX_RFID_CARDS
  /\ ~cardOp.value
  /\ rfidMgr.initialized
  /\ getCardCount(rfidMgr) = 0

\* A step that is a call of addCard(), removeCard() or updateCard().
WriteStep == CardStep("addCard") \/ CardStep("removeCard") \/ CardStep("updateCard")

\* The object after a loss of power and begin(), over that flash.
Rebooted(flash) ==
  RFIDManager_begin(RFIDManager, [data |-> flash, flash |-> flash], TRUE)

\* C27: when addCard(), removeCard() or updateCard() returns true, the flash
\* holds the tag, the card count and, entry by entry, the first count cards
\* of the whitelist as they are at the return; begin() after a restart at
\* that moment succeeds and loads that whitelist.
C27_SavedIsInMemory ==
  [][(WriteStep /\ cardOp'.value) =>
       /\ eeprom'.flash.magic = EEPROM_MAGIC
       /\ eeprom'.flash.numCards = getCardCount(rfidMgr')
       /\ StoredCards(eeprom'.flash) = Whitelist(rfidMgr')
       /\ eeprom'.data = eeprom'.flash
       /\ Rebooted(eeprom'.flash).value
       /\ Whitelist(Rebooted(eeprom'.flash).mgr) = Whitelist(rfidMgr')]_vars

\* removeCard() of the first card of several returned true, as the second
\* write or a later one, and the flash holds the cards that are left.
C27_Witness ==
  /\ cardOp.name = "removeCard"
  /\ cardOp.value
  /\ cardOp.calls >= 2
  /\ cardOp.preIndex = 0
  /\ getCardCount(rfidMgr) >= 1
  /\ getCardCount(rfidMgr) = cardOp.preCount - 1
  /\ StoredCards(eeprom.flash) = Whitelist(rfidMgr)

\* A step that is a call during which EEPROM.commit() fails.
SaveFails == ~cardOp'.commits

\* C28 as claimed: when the save fails during an addCard() of a new UID on a
\* whitelist with room, a removeCard() or an updateCard() of a UID on the
\* whitelist, the call returns false, the flash is as before, and the
\* whitelist is changed: the added card is authorized and the count one
\* higher; the removed card is not authorized any more and the count one
\* lower; the updated card has the new name and level.
C28_Claimed ==
  [][/\ (CardStep("addCard") /\ SaveFails
           /\ Holding(rfidMgr, cardOp'.uid) = {}
           /\ getCardCount(rfidMgr) < MAX_RFID_CARDS) =>
          /\ ~cardOp'.value
          /\ eeprom'.flash = eeprom.flash
          /\ getCardCount(rfidMgr') = getCardCount(rfidMgr) + 1
          /\ isAuthorized(Whitelist(rfidMgr'), cardOp'.uid)
     /\ (CardStep("removeCard") /\ SaveFails /\ Holding(rfidMgr, cardOp'.uid) # {}) =>
          /\ ~cardOp'.value
          /\ eeprom'.flash = eeprom.flash
          /\ getCardCount(rfidMgr') = getCardCount(rfidMgr) - 1
          /\ ~isAuthorized(Whitelist(rfidMgr'), cardOp'.uid)
     /\ (CardStep("updateCard") /\ SaveFails /\ Holding(rfidMgr, cardOp'.uid) # {}) =>
          /\ ~cardOp'.value
          /\ eeprom'.flash = eeprom.flash
          /\ getCardCount(rfidMgr') = getCardCount(rfidMgr)
          /\ rfidMgr' = updateCard(rfidMgr, eeprom, cardOp'.uid, cardOp'.ownerName,
                                   cardOp'.accessLevel, TRUE).mgr]_vars

\* addCard() of a UID of 20 characters, during which the save failed: it
\* returned false, the whitelist has one card more, and the UID is not
\* authorized.
C28_Witness ==
  /\ cardOp.name = "addCard"
  /\ ~cardOp.commits
  /\ ~cardOp.value
  /\ cardOp.preIndex = -1
  /\ getCardCount(rfidMgr) = cardOp.preCount + 1
  /\ Len(cardOp.uid) = UID_BUFFER
  /\ ~isAuthorized(Whitelist(rfidMgr), cardOp.uid)

\* C29 as claimed: the card count is in 0..MAX_RFID_CARDS and no two of the
\* first count entries hold the same UID, in every state reached from the
\* stored snapshots (whose cards have distinct UIDs) by begin(), addCard(),
\* removeCard(), updateCard(), clearAllCards() and resetToDefaults().
C29_Claimed ==
  /\ getCardCount(rfidMgr) >= 0
  /\ getCardCount(rfidMgr) <= MAX_RFID_CARDS
  /\ \A i, j \in CardIndex :
       (i < j /\ j < getCardCount(rfidMgr)) =>
         rfidMgr.authorizedCards[i].uid # rfidMgr.authorizedCards[j].uid

\* addCard() of a UID of 20 characters returned true and two entries of the
\* whitelist hold its first 19 characters.
C29_Witness ==
  /\ cardOp.name = "addCard"
  /\ cardOp.value
  /\ cardOp.preIndex = -1
  /\ Len(cardOp.uid) = UID_BUFFER
  /\ Cardinality(Holding(rfidMgr, toCharArray(cardOp.uid, UID_BUFFER))) = 2

\* The whitelist without its entry at index (0-based).
Without(cards, index) ==
  [k \in 1..(Len(cards) - 1) |-> IF k <= index THEN cards[k] ELSE cards[k + 1]]

\* C30 as claimed: removeCard(uid) of a UID the whitelist holds takes one
\* off the count, leaves the other cards as they were and in their order,
\* and uid is not found and not authorized after it.
C30_Claimed ==
  [][(CardStep("removeCard") /\ Holding(rfidMgr, cardOp'.uid) # {}) =>
       /\ getCardCount(rfidMgr') = getCardCount(rfidMgr) - 1
       /\ Whitelist(rfidMgr') = Without(Whitelist(rfidMgr), findCardIndex(rfidMgr, cardOp'.uid))
       /\ findCardIndex(rfidMgr', cardOp'.uid) = -1
       /\ ~isAuthorized(Whitelist(rfidMgr'), cardOp'.uid)]_vars

\* removeCard() removed an entry that held the UID, and the UID is on the
\* whitelist and authorized still.
C30_Witness ==
  /\ cardOp.name = "removeCard"
  /\ cardOp.preIndex # -1
  /\ getCardCount(rfidMgr) = cardOp.preCount - 1
  /\ findCardIndex(rfidMgr, cardOp.uid) # -1
  /\ isAuthorized(Whitelist(rfidMgr), cardOp.uid)

---------------------------------------------------------------------------
(* Claims about the two gates side by side in the main loop, checked under
   SpecLoop *)

\* Gate g answered a card with CardDenied or ParkingFull during the last
\* step: handleCardScanned() held the loop for DISPLAY_MESSAGE_DURATION.
PausedFor(g) ==
  EventsOf(g, EVENT_CARD_DENIED) \cup EventsOf(g, EVENT_PARKING_FULL) # {}

\* Gate g has a timer that update() would act on at the present millis():
\* the close delay has passed, or the time to scan a card has.
ExpiryDue(g) ==
  \/ /\ gate[g].state = STATE_CLOSING_DELAY
     /\ ~ULongLess(ElapsedInState(g), GATE_CLOSE_DELAY)
  \/ /\ gate[g].state = STATE_WAITING_CARD
     /\ ULongLess(CARD_SCAN_TIMEOUT, ElapsedInState(g))

\* C31 as claimed: a gate's pause for a denied or parking-full card does not
\* hold the other gate up: when a pass of the loop in which gate a paused
\* returns, the other gate has no close delay and no scan timeout that has
\* expired without its update() having acted on it.
C31_Claimed ==
  \A a, b \in Gates :
    (op.name = "loop" /\ a # b /\ PausedFor(a)) => ~ExpiryDue(b)

\* The entrance denied a card during a pass, and at the return of the pass
\* the exit sits in ClosingDelay with GATE_CLOSE_DELAY passed and the
\* barrier still up.
C31_Witness ==
  /\ op.name = "loop"
  /\ EventsOf("ENTRANCE", EVENT_CARD_DENIED) # {}
  /\ gate["EXIT"].state = STATE_CLOSING_DELAY
  /\ ElapsedInState("EXIT") >= GATE_CLOSE_DELAY
  /\ gate["EXIT"].servo = SERVO_OPEN_ANGLE

\* Slot i is free before the step and occupied after it.
NewlyHeld(i) == ~slotMgr.slots[i].occupied /\ slotMgr'.slots[i].occupied

\* C32: a slot becomes occupied only in a pass of the loop that served a
\* card at the entrance in WaitingCard and that ends with the entrance in
\* BarrierOpen: the slot is held by that card, the entrance handed one
\* CardScanned event with that card and that slot number to its callback, and
\* no CardDenied and no ParkingFull event.
C32_SlotTakenOnlyWithOpenGate ==
  [][\A i \in SlotIndex :
       NewlyHeld(i) =>
         /\ EntranceServed
         /\ slotMgr'.slots[i].cardUID = toCharArray(op'.cardUID, UID_BUFFER)
         /\ gate'["ENTRANCE"].state = STATE_BARRIER_OPEN
         /\ Cardinality(EntranceEvents(EVENT_CARD_SCANNED)') = 1
         /\ \A k \in EntranceEvents(EVENT_CARD_SCANNED)' :
              /\ fired'["ENTRANCE"][k].delivered
              /\ fired'["ENTRANCE"][k].cardUID = op'.cardUID
              /\ fired'["ENTRANCE"][k].slotNumber = slotMgr'.slots[i].slotNumber
         /\ EntranceEvents(EVENT_CARD_DENIED)' = {}
         /\ EntranceEvents(EVENT_PARKING_FULL)' = {}]_vars

\* A pass gave the last free slot to a card that held none, and the entrance
\* is open for it.
C32_Witness ==
  /\ op.name = "loop"
  /\ op.preSlot = -1
  /\ op.preAvailable = 1
  /\ getAvailableSlots(slotMgr) = 0
  /\ op.slotNumber >= 1
  /\ findSlotByCard(slotMgr, op.cardUID) = op.slotNumber
  /\ gate["ENTRANCE"].state = STATE_BARRIER_OPEN
  /\ EntranceEvents(EVENT_CARD_SCANNED) # {}

---------------------------------------------------------------------------
(* Claims about a gate that is ticked fairly, checked under SpecTicks *)

\* The waits between two update() calls that are tried: none, the close
\* delay, and just more than the time to scan a card.
TickWaits == {0, GATE_CLOSE_DELAY, CARD_SCAN_TIMEOUT + 1}

\* The gate object m is in Idle, or n update() calls or fewer, with some
\* readings of the sensor and some waits before them, bring it there.
RECURSIVE IdleWithin(_, _)
IdleWithin(m, n) ==
  \/ m.state = STATE_IDLE
  \/ /\ n > 0
     /\ \E vehicleDetected \in BOOLEAN, wait \in TickWaits :
          IdleWithin(update(delay(m, wait), vehicleDetected, 0), n - 1)

\* The horizon leaves the time for the timer of the gate's state to expire.
RoomFor(g, ms) == gate[g].stateStartTime + ms <= TickLimit

\* C33: no state of the gate is terminal: from every reachable state, three
\* update() calls or fewer bring the gate to Idle; and with update() called
\* again and again while the clock runs, whatever the sensor reads, a gate in
\* ClosingDelay comes to Idle, and a gate in WaitingCard leaves WaitingCard.
C33_NoTerminalState ==
  /\ [](IdleWithin(Enter("ENTRANCE"), 3))
  /\ (gate["ENTRANCE"].state = STATE_CLOSING_DELAY /\ RoomFor("ENTRANCE", GATE_CLOSE_DELAY))
       ~> (gate["ENTRANCE"].state = STATE_IDLE)
  /\ (/\ gate["ENTRANCE"].state = STATE_WAITING_CARD
      /\ RoomFor("ENTRANCE", CARD_SCAN_TIMEOUT + ClockStep))
       ~> (gate["ENTRANCE"].state # STATE_WAITING_CARD)

\* An update() that read present found the gate in ClosingDelay with the
\* close delay passed, and brought it to Idle.
C33_Witness ==
  /\ op.name = "update" /\ op.vehicleDetected
  /\ op.pre.state = STATE_CLOSING_DELAY
  /\ ULongSub(now, op.pre.stateStartTime) >= GATE_CLOSE_DELAY
  /\ gate["ENTRANCE"].state = STATE_IDLE

---------------------------------------------------------------------------
(* Claims about the NetworkManager, checked under SpecNet *)

\* C34 as claimed: with auto-reconnect enabled, every update() that finds its
\* check of the link due, and the link down after the object had a
\* connection, calls reconnect(): also when an earlier reconnect() failed.
C34_Claimed ==
  [][(/\ netOp'.name = "NetworkManager::update"
      /\ netOp'.checked
      /\ netMgr.autoReconnect
      /\ netOp.hadLink
      /\ ~wifi)
       => netOp'.reconnects >= 1]_vars

\* Late enough for a second check after a reconnect() that timed out: the
\* object had a connection, an update() found its check due and the link down
\* with auto-reconnect enabled, and did not call reconnect().
C34_Witness ==
  /\ netOp.name = "NetworkManager::update"
  /\ netOp.checked
  /\ netOp.hadLink
  /\ netOp.reconnects = 0
  /\ netMgr.autoReconnect
  /\ netMgr.reconnectCount = 0
  /\ ~netMgr.wasConnected
  /\ ~wifi
  /\ now >= WIFI_CHECK_INTERVAL + RECONNECT_SETTLE + RECONNECT_TIMEOUT

---------------------------------------------------------------------------
(* Further claims about the SlotManager, checked under SpecSlots *)

\* C35: after begin(), the counter says "some slot is free" exactly when the
\* search for a free slot finds one; and allocateSlot for a card that holds no
\* slot returns -1 exactly when the counter is 0.
C35_RefusedIffNoneAvailable ==
  /\ [](slotMgr.initialized =>
          (getAvailableSlots(slotMgr) > 0 <=> findAvailableSlot(slotMgr) # -1))
  /\ [][(AllocateStep /\ op'.preSlot = -1) =>
          (ret'.value = -1 <=> getAvailableSlots(slotMgr) = 0)]_vars

\* A card that held no slot took the last free one, after all slots had been
\* cleared or released: the counter is 0 and no free slot is found.
C35_Witness ==
  /\ slotMgr.initialized
  /\ op.name = "allocateSlot"
  /\ op.preSlot = -1
  /\ op.preAvailable = 1
  /\ ret.value >= 1
  /\ getAvailableSlots(slotMgr) = 0
  /\ findAvailableSlot(slotMgr) = -1

---------------------------------------------------------------------------
(* What the callback finds when it is invoked, checked under SpecGate *)

\* The state an event of this kind reports.
StateReported(e) ==
  CASE e = EVENT_VEHICLE_DETECTED -> STATE_WAITING_CARD
    [] e = EVENT_VEHICLE_PASSED -> STATE_CLOSING_DELAY
    [] e = EVENT_CARD_SCANNED -> STATE_BARRIER_OPEN
    [] OTHER -> STATE_IDLE

\* C36: whenever the callback is invoked, getState() is already the state the
\* event reports, and for CardScanned the actuator has already been commanded
\* open.
C36_Claimed ==
  \A g \in Gates : \A k \in 1..Len(fired[g]) :
    fired[g][k].delivered =>
      /\ fired[g][k].stateSeen = StateReported(fired[g][k].event)
      /\ fired[g][k].event = EVENT_CARD_SCANNED =>
           fired[g][k].servoSeen = SERVO_OPEN_ANGLE

\* handleCardScanned() granted access on a closed gate: the callback ran for
\* CardScanned while the gate was in WaitingCard with the barrier closed, and
\* the call left the gate in BarrierOpen with the barrier open.
C36_Witness ==
  /\ op.name = "handleCardScanned"
  /\ \E k \in EventsOf("ENTRANCE", EVENT_CARD_SCANNED) :
       /\ fired["ENTRANCE"][k].delivered
       /\ fired["ENTRANCE"][k].stateSeen = STATE_WAITING_CARD
       /\ fired["ENTRANCE"][k].servoSeen = SERVO_CLOSED_ANGLE
  /\ gate["ENTRANCE"].state = STATE_BARRIER_OPEN
  /\ gate["ENTRANCE"].servo = SERVO_OPEN_ANGLE

---------------------------------------------------------------------------
(* A vehicle that stays at the sensor of an idle gate, checked under SpecGate *)

\* The next n calls of update() on m, each reading "present", leave m in Idle
\* and fire nothing.
RECURSIVE StaysQuiet(_, _)
StaysQuiet(m, n) ==
  \/ n = 0
  \/ LET u == update(m, TRUE, 0)
     IN /\ u.state = STATE_IDLE
        /\ u.fired = <<>>
        /\ StaysQuiet(u, n - 1)

\* C37: a gate that is in Idle (back from a time-out, a refused scan, reset()
\* or the end of ClosingDelay) after a tick that read "present" stays in Idle
\* and fires nothing on the next three ticks that read "present"; update()
\* fires VehicleDetected only on a tick reading "present" that follows a tick
\* reading "absent".
C37_NoRefireWhilePresent ==
  /\ [](\A g \in Gates :
          (gate[g].state = STATE_IDLE /\ sensed[g]) => StaysQuiet(Enter(g), 3))
  /\ [][\A g \in Gates :
          (/\ UpdateStep(g)
           /\ \E k \in 1..Len(fired'[g]) : fired'[g][k].event = EVENT_VEHICLE_DETECTED)
            => (~sensed[g] /\ sensed'[g])]_vars

\* update() read "present" on a gate that had come back to Idle after begin()
\* (its timer restarted later than millis() = 0, no card kept: a time-out,
\* reset() or the end of ClosingDelay) with the last reading "present": the
\* gate is still in Idle and nothing was fired.
C37_Witness ==
  /\ op.name = "update"
  /\ op.gate = "ENTRANCE"
  /\ op.vehicleDetected
  /\ op.pre.initialized
  /\ op.pre.state = STATE_IDLE
  /\ op.pre.vehicleWasDetected
  /\ op.pre.stateStartTime > 0
  /\ op.pre.lastScannedCard = ""
  /\ sensed["ENTRANCE"]
  /\ gate["ENTRANCE"].state = STATE_IDLE
  /\ fired["ENTRANCE"] = <<>>

---------------------------------------------------------------------------
(* When update() lowers the barrier, checked under SpecGate *)

\* This step's call on g commanded the actuator closed.
CommandsClosed(g) ==
  \E k \in 1..Len(servoCmds'[g]) : servoCmds'[g][k] = SERVO_CLOSED_ANGLE

\* C38, as claimed: update() commands the actuator closed only on a tick
\* whose sensor reading is "absent".
C38_Claimed ==
  [][\A g \in Gates :
       (UpdateStep(g) /\ CommandsClosed(g)) => ~op'.vehicleDetected]_vars

\* C38, amended: update() commands the actuator closed only on a tick that
\* finds the gate in ClosingDelay with the close delay passed, and on every
\* such tick, whatever the sensor reads: a vehicle present at the sensor when
\* the close delay expires does not keep the barrier up.
C38_ClosesOnExpiryWhateverTheReading ==
  [][\A g \in Gates :
       UpdateStep(g) =>
         (CommandsClosed(g) <=>
            /\ gate[g].initialized
            /\ gate[g].state = STATE_CLOSING_DELAY
            /\ ~ULongLess(ElapsedInState(g), GATE_CLOSE_DELAY))]_vars

\* A vehicle passed, and at the tick that found the close delay expired
\* another one was at the sensor: the barrier was commanded closed.
C38_Witness ==
  /\ op.name = "update"
  /\ op.gate = "ENTRANCE"
  /\ op.vehicleDetected
  /\ ~op.pre.vehicleWasDetected
  /\ op.pre.state = STATE_CLOSING_DELAY
  /\ op.pre.servo = SERVO_OPEN_ANGLE
  /\ servoCmds["ENTRANCE"] = <<SERVO_CLOSED_ANGLE>>
  /\ gate["ENTRANCE"].servo = SERVO_CLOSED_ANGLE
  /\ gate["ENTRANCE"].state = STATE_IDLE

---------------------------------------------------------------------------
(* What updateCard() leaves alone, checked under SpecCards *)

\* C39: updateCard() of a UID that an entry holds changes the first such
\* entry only, and of it only the fields asked for: the name is kept when
\* ownerName is nullptr and set to the given one otherwise, the level is kept
\* when accessLevel is negative and set to the given one otherwise; the UID
\* and the active flag of the entry, every other entry and the number of
\* cards are as before.
C39_UpdateCardFrame ==
  [][(CardStep("updateCard") /\ findCardIndex(rfidMgr, cardOp'.uid) # -1) =>
       LET index == findCardIndex(rfidMgr, cardOp'.uid)
           old == rfidMgr.authorizedCards[index]
           new == rfidMgr'.authorizedCards[index]
       IN /\ new.uid = old.uid
          /\ new.isActive = old.isActive
          /\ new.ownerName = IF cardOp'.ownerName = NullName THEN old.ownerName
                             ELSE cardOp'.ownerName
          /\ new.accessLevel = IF cardOp'.accessLevel < 0 THEN old.accessLevel
                               ELSE cardOp'.accessLevel
          /\ \A j \in CardIndex \ {index} :
               rfidMgr'.authorizedCards[j] = rfidMgr.authorizedCards[j]
          /\ getCardCount(rfidMgr') = getCardCount(rfidMgr)
          /\ rfidMgr'.initialized = rfidMgr.initialized]_vars

\* updateCard() gave the first default card a new name and no new level: the
\* entry has the new name and the level, UID and flag it had, and the
\* whitelist has as many cards as before.
C39_Witness ==
  /\ cardOp.name = "updateCard"
  /\ cardOp.uid = DefaultCards[1].uid
  /\ cardOp.ownerName = "Owner"
  /\ cardOp.accessLevel = -1
  /\ cardOp.preIndex # -1
  /\ cardOp.preCount = getCardCount(rfidMgr)
  /\ LET new == rfidMgr.authorizedCards[cardOp.preIndex]
     IN /\ new.uid = DefaultCards[1].uid
        /\ new.ownerName = "Owner"
        /\ new.accessLevel = DefaultCards[1].accessLevel
        /\ new.isActive

---------------------------------------------------------------------------
(* The gate's timers when millis() wraps, checked under SpecWrap *)

\* millis() has wrapped since gate g entered its state.
WrappedInState(g) == gate[g].stateStartTime < 0 /\ now >= 0

\* The time gate g has been in its state: what was left to the wrap when it
\* entered, and what millis() reads.
TimeInState(g) == (0 - gate[g].stateStartTime) + now

\* C40: on a tick after millis() wrapped in the gate's state, a gate in
\* ClosingDelay goes to Idle and closes exactly when GATE_CLOSE_DELAY ms have
\* passed, and a gate in WaitingCard with the vehicle still there stays while
\* less than CARD_SCAN_TIMEOUT ms have passed and times out once more have.
C40_TimersSurviveWrap ==
  [][\A g \in Gates :
       (UpdateStep(g) /\ WrappedInState(g)) =>
         /\ gate[g].state = STATE_CLOSING_DELAY =>
              /\ gate'[g].state = STATE_IDLE <=> TimeInState(g) >= GATE_CLOSE_DELAY
              /\ gate'[g].state \in {STATE_IDLE, STATE_CLOSING_DELAY}
         /\ (gate[g].state = STATE_WAITING_CARD /\ op'.vehicleDetected) =>
              /\ TimeInState(g) < CARD_SCAN_TIMEOUT =>
                   (gate'[g].state = STATE_WAITING_CARD /\ fired'[g] = <<>>)
              /\ TimeInState(g) > CARD_SCAN_TIMEOUT =>
                   /\ gate'[g].state = STATE_IDLE
                   /\ Len(fired'[g]) = 1
                   /\ fired'[g][1].event = EVENT_TIMEOUT]_vars

\* A gate that began to wait for a card before millis() wrapped timed out
\* after the wrap, the vehicle still there, and not on a tick before.
C40_Witness ==
  /\ op.name = "update"
  /\ op.gate = "ENTRANCE"
  /\ op.vehicleDetected
  /\ op.pre.state = STATE_WAITING_CARD
  /\ op.pre.stateStartTime < 0
  /\ now = op.pre.stateStartTime + CARD_SCAN_TIMEOUT + ClockStep
  /\ gate["ENTRANCE"].state = STATE_IDLE
  /\ EventsOf("ENTRANCE", EVENT_TIMEOUT) # {}

=============================================================================
